---- MODULE Spec2Model ----
(***************************************************************************)
(* Population reach engine of ba_ooh_ads, and the ads pipeline around it.  *)
(*                                                                         *)
(*   src/src/etl/population/population_reach.py   run_reach and its stages *)
(*   src/src/etl/ads/consolidate_ads.py           calculate_kring_reach    *)
(*   src/src/utils/utils_spatial.py               add_h3_index             *)
(*   src/src/etl/ads/geocoding_ads.py             GeocodingService         *)
(*   src/src/etl/ads/extract_ads.py               download_file            *)
(*   src/src/etl/ads/transform_ads.py             clean_column_name,       *)
(*                                                normalize_address_text   *)
(*                                                                         *)
(* A pandas DataFrame is a record [columns, rows]; a row is a function     *)
(* from column names to values.  Tables whose row order matters (the trip  *)
(* legs) keep their rows in a sequence, grouped tables keep them in a set. *)
(* A float is an exact fraction [n, d] (d > 0); 0/0 stands for NaN.        *)
(* A nullable scalar is a record tagged by kind: "num", "str" or "nan".    *)
(* A hexagonal cell is its axial coordinate <<q, r>>; <<>> is a missing    *)
(* cell (None / NaN in an object column).  A str that is stripped, cased   *)
(* or matched by a regular expression is the sequence of its characters.   *)
(***************************************************************************)
EXTENDS Integers, Sequences, FiniteSets, TLC

VARIABLES
    pc,                   \* position in run_reach
    error,                \* the exception that ended the run, "" if none
    df_etapas,            \* trip legs: the CSV, then the frame run_reach holds
    df_trips_agg,         \* aggregate_trips_by_h3's result
    h3_land,              \* create_h3_grid: (cell, census unit) overlay pieces
    radios_censales,      \* create_h3_grid: census units with their areas
    h3_land_weighted,     \* add_intersection_area_proportions' result
    census_age,           \* census query result: (unit, bracket, count)
    census_data,          \* load_ct_population_data's result
    h3_population,        \* distribute_population_to_h3's result
    df_final_reach,       \* integrate_population_data's result
    population_reach_h3,  \* the parquet file run_reach writes
    df_pop_wide,          \* calculate_kring_reach's input table
    kring_k,              \* calculate_kring_reach's radius k
    df_reach_kring,       \* calculate_kring_reach's result
    geocache,             \* GeocodingService: the geocache table of the SQLite file
    geo_log,              \* GeocodingService: the geocode calls made so far
    dest_file,            \* download_file: the file at dest_path
    download_log,         \* download_file: the calls made so far
    column_names,         \* clean_column_name: a name and its successive images
    addresses,            \* normalize_address_text: the address column
    addresses_norm,       \* normalize_address_text: the column it writes
    points,               \* add_h3_index: the table it is called on
    h3_call,              \* add_h3_index: the call and what it returned
    trips_file,           \* load_trips_data: the local copy of the trip-leg file
    trips_runs            \* load_trips_data: what each call read

vars == <<pc, error, df_etapas, df_trips_agg, h3_land, radios_censales,
          h3_land_weighted, census_age, census_data, h3_population,
          df_final_reach, population_reach_h3, df_pop_wide, kring_k,
          df_reach_kring, geocache, geo_log, dest_file, download_log,
          column_names, addresses, addresses_norm, points, h3_call,
          trips_file, trips_runs>>

reachVars == <<pc, error, df_etapas, df_trips_agg, h3_land, radios_censales,
               h3_land_weighted, census_age, census_data, h3_population,
               df_final_reach, population_reach_h3>>

kringVars == <<df_pop_wide, kring_k, df_reach_kring>>

geocodeVars == <<geocache, geo_log>>

downloadVars == <<dest_file, download_log>>

textVars == <<column_names, addresses, addresses_norm>>

pointsVars == <<points, h3_call>>

tripsFileVars == <<trips_file, trips_runs>>

adsVars == <<geocodeVars, downloadVars, textVars, pointsVars, tripsFileVars>>

(***************************************************************************)
(* Bounds of the model.                                                    *)
(***************************************************************************)
MaxLegs == 2        \* trip legs in the CSV
MaxPop == 3         \* census count of one (unit, bracket)
MaxK == 2           \* largest k-ring radius tried
MaxMetric == 1      \* largest value of the second metric column
MaxCalls == 2       \* geocode calls on one cache
MaxChunks == 2      \* chunks of one streamed response
MaxDownloads == 2   \* download_file calls on one destination
MaxRuns == 3        \* load_trips_data calls on one local file
MaxName == 4        \* characters of a column name
MaxPoints == 2      \* rows of the table add_h3_index is called on

(***************************************************************************)
(* Floats as exact fractions.                                              *)
(***************************************************************************)
R(n, d) == [n |-> n, d |-> d]

NaNFloat == R(0, 0)

InfFloat == R(1, 0)

IsNaNFloat(a) == a.d = 0 /\ a.n = 0

IsFinite(a) == a.d # 0

\* Float division of two non-negative numbers: x/0 is inf, 0/0 is NaN.
FloatDiv(x, y) == IF y # 0 THEN R(x, y) ELSE IF x = 0 THEN NaNFloat ELSE InfFloat

RAdd(a, b) == R(a.n * b.d + b.n * a.d, a.d * b.d)

RMul(a, b) == R(a.n * b.n, a.d * b.d)

RInt(k) == R(k, 1)

REq(a, b) == a.n * b.d = b.n * a.d

RLeq(a, b) == a.n * b.d <= b.n * a.d

IsWhole(a) == a.n % a.d = 0

\* Series.astype(int) of a finite float: truncation toward zero.
AsTypeInt(a) == IF a.n >= 0 THEN a.n \div a.d ELSE -((-a.n) \div a.d)

\* A variant that drops the fractional part.
SeriesRoundDown(a) == a.n \div a.d

\* Series.round(): numpy rounds halves to the even neighbour.
SeriesRound(a) ==
    LET f == a.n \div a.d
        rem == a.n - f * a.d
    IN  IF 2 * rem < a.d THEN f
        ELSE IF 2 * rem > a.d THEN f + 1
        ELSE IF f % 2 = 0 THEN f ELSE f + 1

RECURSIVE RSumSeq(_)
RSumSeq(s) == IF s = <<>> THEN RInt(0) ELSE RAdd(Head(s), RSumSeq(Tail(s)))

\* Sum of the fractions f[x], x in DOMAIN f.
RECURSIVE RSumFn(_)
RSumFn(f) ==
    IF DOMAIN f = {} THEN RInt(0)
    ELSE LET x == CHOOSE y \in DOMAIN f : TRUE
         IN  RAdd(f[x], RSumFn([y \in DOMAIN f \ {x} |-> f[y]]))

\* Sum of the integers f[x], x in DOMAIN f.
RECURSIVE SumFn(_)
SumFn(f) ==
    IF DOMAIN f = {} THEN 0
    ELSE LET x == CHOOSE y \in DOMAIN f : TRUE
         IN  f[x] + SumFn([y \in DOMAIN f \ {x} |-> f[y]])

(***************************************************************************)
(* Nullable scalars and cells.                                             *)
(***************************************************************************)
NaN == [kind |-> "nan"]

Num(v) == [kind |-> "num", val |-> v]

Str(s) == [kind |-> "str", val |-> s]

IsNa(x) == x.kind = "nan"

NoCell == <<>>

\* Row r with column c set to v (added when missing).
WithCol(r, c, v) == [x \in DOMAIN r \cup {c} |-> IF x = c THEN v ELSE r[x]]

EmptyTable == [columns |-> {}, rows |-> {}]

RECURSIVE PickIdx(_, _, _)
PickIdx(s, idx, i) ==
    IF i > Len(s) THEN <<>>
    ELSE (IF i \in idx THEN <<s[i]>> ELSE <<>>) \o PickIdx(s, idx, i + 1)

\* The rows of s at the positions in idx, in order.
Take(s, idx) == PickIdx(s, idx, 1)

(***************************************************************************)
(* load_trips_data: jurisdiction flags and cells of the trip legs.         *)
(***************************************************************************)
\* Series.between(2000, 5999): inclusive on both ends, False for NaN.
\* A variant with exclusive bounds.
BetweenExclusive(x, lo, hi) == x.kind = "num" /\ lo < x.val /\ x.val < hi

\* Series.between(lo, hi): both bounds inclusive, False for a missing value.
Between(x, lo, hi) == x.kind = "num" /\ lo <= x.val /\ x.val <= hi

InCaba(x) == Between(x, 2000, 5999)

\* h3.latlng_to_cell: the cell that covers the point.  Coordinates are in
\* half-cell units, so that distinct points can share a cell.
LatLngToCell(lat, lon) == <<lon \div 2, lat \div 2>>

\* add_h3_index(inplace=False): one entry per row, the cell where both
\* coordinates are present and a missing value elsewhere.
\* A variant that files a row without coordinates under the cell of (0, 0).
AddH3IndexFillingMissing(rows, lat_col, lon_col) ==
    [i \in 1..Len(rows) |->
        IF ~IsNa(rows[i][lat_col]) /\ ~IsNa(rows[i][lon_col])
        THEN LatLngToCell(rows[i][lat_col].val, rows[i][lon_col].val)
        ELSE LatLngToCell(0, 0)]

AddH3Index(rows, lat_col, lon_col) ==
    [i \in 1..Len(rows) |->
        IF ~IsNa(rows[i][lat_col]) /\ ~IsNa(rows[i][lon_col])
        THEN LatLngToCell(rows[i][lat_col].val, rows[i][lon_col].val)
        ELSE NoCell]

\* h3.cell_to_parent(x, H3_RESOLUTION) of a cell that already has that
\* resolution is the cell itself; a missing cell stays missing.
CellToParent(c) == c

LoadTripsColumns ==
    {"origen_caba", "destino_caba", "origen_h3r10", "destino_h3r10",
     "origen_h3r9", "destino_h3r9"}

LoadTripsData(csv) ==
    LET o10 == AddH3Index(csv.rows, "latitud_origen_viaje", "longitud_origen_viaje")
        d10 == AddH3Index(csv.rows, "latitud_destino_viaje", "longitud_destino_viaje")
        row(i) ==
            LET r == csv.rows[i]
            IN  [c \in csv.columns \cup LoadTripsColumns |->
                    CASE c = "origen_caba" -> InCaba(r["departamento_origen_viaje"])
                      [] c = "destino_caba" -> InCaba(r["departamento_destino_viaje"])
                      [] c = "origen_h3r10" -> o10[i]
                      [] c = "destino_h3r10" -> d10[i]
                      [] c = "origen_h3r9" ->
                            IF o10[i] # NoCell THEN CellToParent(o10[i]) ELSE NoCell
                      [] c = "destino_h3r9" ->
                            IF d10[i] # NoCell THEN CellToParent(d10[i]) ELSE NoCell
                      [] OTHER -> r[c]]
    IN  [columns |-> csv.columns \cup LoadTripsColumns,
         rows |-> [i \in 1..Len(csv.rows) |-> row(i)]]

(***************************************************************************)
(* aggregate_trips_by_h3.                                                  *)
(***************************************************************************)
Digits == <<"0", "1", "2", "3", "4", "5", "6", "7", "8", "9">>

RECURSIVE Decimal(_)
Decimal(n) ==
    IF n < 10 THEN Digits[n + 1]
    ELSE Decimal(n \div 10) \o Digits[(n % 10) + 1]

\* f"{n:02d}": decimal digits, zero-padded to width 2 (the sign counts).
Fmt02d(n) ==
    IF n < 0 THEN "-" \o Decimal(-n)
    ELSE IF n < 10 THEN "0" \o Decimal(n)
    ELSE Decimal(n)

Desconocido == "Desconocido"

CienYMas == "100 Y MÁS"

\* _normalizar_edad: NaN and values int() rejects become 'Desconocido'.
NormalizarEdad(valor) ==
    IF IsNa(valor) THEN Desconocido
    ELSE IF valor.kind # "num" THEN Desconocido
    ELSE IF valor.val >= 100 THEN CienYMas
    ELSE Fmt02d(valor.val) \o " A " \o Fmt02d(valor.val + 4)

\* Lines 92-100: the tramo_edad column, and a default genero column, are
\* written into the caller's frame.
WithTramoEdad(df) ==
    LET tramo(r) == IF "grupo_edad" \in df.columns
                    THEN NormalizarEdad(r["grupo_edad"])
                    ELSE Desconocido
        withT == [columns |-> df.columns \cup {"tramo_edad"},
                  rows |-> [i \in 1..Len(df.rows) |->
                              WithCol(df.rows[i], "tramo_edad", tramo(df.rows[i]))]]
    IN  IF "genero" \in withT.columns THEN withT
        ELSE [columns |-> withT.columns \cup {"genero"},
              rows |-> [i \in 1..Len(withT.rows) |->
                          WithCol(withT.rows[i], "genero", Str(Desconocido))]]

\* dropna(subset=[origen_caba, destino_caba, id_tarjeta, factor_expansion_viaje]);
\* the two flags are booleans and never missing.
DropNa(rows) ==
    Take(rows, {i \in 1..Len(rows) :
                    /\ ~IsNa(rows[i]["id_tarjeta"])
                    /\ ~IsNaNFloat(rows[i]["factor_expansion_viaje"])})

LongRow(r, h3_col, caba_col) ==
    [h3_index |-> r[h3_col], in_caba |-> r[caba_col],
     id_tarjeta |-> r["id_tarjeta"],
     factor_expansion_viaje |-> r["factor_expansion_viaje"],
     genero |-> r["genero"], tramo_edad |-> r["tramo_edad"]]

\* pd.concat([origin side, destination side], ignore_index=True): every
\* origin-side observation comes before every destination-side one.
ConcatLong(rows) ==
    [i \in 1..Len(rows) |-> LongRow(rows[i], "origen_h3r9", "origen_caba")]
    \o [i \in 1..Len(rows) |-> LongRow(rows[i], "destino_h3r9", "destino_caba")]

FilterInCaba(long) == Take(long, {i \in 1..Len(long) : long[i].in_caba})

\* A variant that keeps the last occurrence (keep="last").
DropDuplicatesKeepLast(long) ==
    Take(long, {i \in 1..Len(long) :
                    \A j \in (i + 1)..Len(long) :
                        ~(/\ long[j].h3_index = long[i].h3_index
                          /\ long[j].id_tarjeta = long[i].id_tarjeta)})

\* A variant: duplicates are dropped per (cell, rider, bracket, gender).
DropDuplicatesPerAttribute(long) ==
    Take(long, {i \in 1..Len(long) :
                    \A j \in 1..(i - 1) :
                        ~(/\ long[j].h3_index = long[i].h3_index
                          /\ long[j].id_tarjeta = long[i].id_tarjeta
                          /\ long[j].tramo_edad = long[i].tramo_edad
                          /\ long[j].genero = long[i].genero)})

\* drop_duplicates(subset=['h3_index', 'id_tarjeta']), keep='first'.
DropDuplicates(long) ==
    Take(long, {i \in 1..Len(long) :
                    \A j \in 1..(i - 1) :
                        ~(/\ long[j].h3_index = long[i].h3_index
                          /\ long[j].id_tarjeta = long[i].id_tarjeta)})

GeneroNorm(g) ==
    IF g.kind = "str" /\ g.val = "F" THEN "mujeres_circulante"
    ELSE IF g.kind = "str" /\ g.val = "M" THEN "hombres_circulante"
    ELSE "otros_circulante"

\* A variant that keeps the rows with a missing cell as a group of their own.
GroupSumKeepingMissing(unique) ==
    LET key(r) == <<r.h3_index, r.tramo_edad, GeneroNorm(r.genero)>>
        keys == {key(unique[i]) : i \in 1..Len(unique)}
    IN  [k \in keys |->
            LET mine == Take(unique, {i \in 1..Len(unique) : key(unique[i]) = k})
            IN  RSumSeq([i \in 1..Len(mine) |-> mine[i].factor_expansion_viaje])]

\* groupby([h3_index, tramo_edad, genero_norm]).sum(): rows with a missing
\* key are left out; the result maps each key to its summed weight.
GroupSum(unique) ==
    LET keyed == Take(unique, {i \in 1..Len(unique) : unique[i].h3_index # NoCell})
        key(r) == <<r.h3_index, r.tramo_edad, GeneroNorm(r.genero)>>
        keys == {key(keyed[i]) : i \in 1..Len(keyed)}
    IN  [k \in keys |->
            LET mine == Take(keyed, {i \in 1..Len(keyed) : key(keyed[i]) = k})
            IN  RSumSeq([i \in 1..Len(mine) |-> mine[i].factor_expansion_viaje])]

\* Lines 132-143: pivot to one row per (cell, bracket) with a column per
\* gender present anywhere in the data, 0 where a cell has none; the total
\* is the integer part of the row sum; then every column is cast to int.
PivotTotals(agg) ==
    LET cols_metricas == {k[3] : k \in DOMAIN agg}
        index == {<<k[1], k[2]>> : k \in DOMAIN agg}
        cell(ix, c) == IF <<ix[1], ix[2], c>> \in DOMAIN agg
                       THEN agg[<<ix[1], ix[2], c>>] ELSE RInt(0)
        columns == {"h3_index", "tramo_edad", "total_circulante"} \cup cols_metricas
        row(ix) ==
            [c \in columns |->
                CASE c = "h3_index" -> ix[1]
                  [] c = "tramo_edad" -> ix[2]
                  [] c = "total_circulante" ->
                        AsTypeInt(RSumFn([m \in cols_metricas |-> cell(ix, m)]))
                  [] OTHER -> AsTypeInt(cell(ix, c))]
    IN  [columns |-> columns, rows |-> {row(ix) : ix \in index}]

\* The rows aggregate_trips_by_h3 keeps, one per (cell, rider).
DfUnique(df) == DropDuplicates(FilterInCaba(ConcatLong(DropNa(WithTramoEdad(df).rows))))

AggregateTripsByH3(df) == PivotTotals(GroupSum(DfUnique(df)))

(***************************************************************************)
(* add_intersection_area_proportions.  A geometry is represented by its    *)
(* area in the projected reference.                                        *)
(***************************************************************************)
\* A variant: the operands of the quotient are swapped.
PropToRadioInverse(intersect_area, radio_area) ==
    LET prop == IF IsNa(radio_area) THEN NaNFloat
                ELSE FloatDiv(radio_area.val, intersect_area)
    IN  IF IsNaNFloat(prop) THEN RInt(0) ELSE prop

\* A variant: the quotient is kept as it is, without fillna(0).
PropToRadioNoFill(intersect_area, radio_area) ==
    IF IsNa(radio_area) THEN NaNFloat ELSE FloatDiv(intersect_area, radio_area.val)

\* Lines 238-245: the parent unit's area, the quotient, and fillna(0).
PropToRadio(intersect_area, radio_area) ==
    LET prop == IF IsNa(radio_area) THEN NaNFloat
                ELSE FloatDiv(intersect_area, radio_area.val)
    IN  IF IsNaNFloat(prop) THEN RInt(0) ELSE prop

AddIntersectionAreaProportions(land, radios) ==
    LET radio_area(id) ==
            IF \E u \in radios : u.cod_indec = id
            THEN Num((CHOOSE u \in radios : u.cod_indec = id).area)
            ELSE NaN
    IN  {[h3_index |-> p.h3_index, cod_indec |-> p.cod_indec,
          intersect_area_m2 |-> p.area,
          radio_area_m2 |-> radio_area(p.cod_indec),
          prop_to_radio |-> PropToRadio(p.area, radio_area(p.cod_indec))] : p \in land}

(***************************************************************************)
(* load_ct_population_data: the Gender/Age projector.                      *)
(***************************************************************************)
\* data_tasas: females per 100 males by age bracket.
TasasFeminidad ==
    [t \in {"00 A 04", "05 A 09", "10 A 14"} |-> 97]
    @@ ("15 A 19" :> 101) @@ ("20 A 24" :> 108) @@ ("25 A 29" :> 109)
    @@ ("30 A 34" :> 108) @@ ("35 A 39" :> 106) @@ ("40 A 44" :> 110)
    @@ ("45 A 49" :> 115) @@ ("50 A 54" :> 118) @@ ("55 A 59" :> 123)
    @@ ("60 A 64" :> 126) @@ ("65 A 69" :> 137) @@ ("70 A 74" :> 147)
    @@ ("75 A 79" :> 163) @@ ("80 A 84" :> 187) @@ ("85 A 89" :> 223)
    @@ ("90 A 94" :> 290) @@ ("95 A 99" :> 370) @@ ("100 Y MÁS" :> 557)

\* Lines 319-321: the two top census brackets become '100 Y MÁS'.
ReplaceTramo(t) == IF t \in {"100 A 104", "105 Y MÁS"} THEN "100 Y MÁS" ELSE t

\* Line 324: one count per (unit, bracket).
UnifyCensus(census) ==
    LET keys == {<<c.cod_indec, ReplaceTramo(c.tramo_edad)>> : c \in census}
    IN  [k \in keys |->
            LET mine == {c \in census :
                            <<c.cod_indec, ReplaceTramo(c.tramo_edad)>> = k}
            IN  SumFn([c \in mine |-> c.total_conteo])]

\* A variant: the total is divided by the ratio alone.
HombresFloatByRatio(total_conteo, tasa_feminidad) ==
    R(100 * total_conteo, tasa_feminidad)

\* Line 335: hombres_float = total / (1 + tasa/100).
HombresFloat(total_conteo, tasa_feminidad) ==
    R(100 * total_conteo, 100 + tasa_feminidad)

\* Line 339: mujeres = total - hombres.
Mujeres(total_conteo, hombres) == total_conteo - hombres

\* A variant: rows of a bracket the table lacks are left out (inner merge).
LoadCtPopulationDataSkipping(census) ==
    LET unified == UnifyCensus(census)
        known == {k \in DOMAIN unified : k[2] \in DOMAIN TasasFeminidad}
        row(k) ==
            LET hombres == SeriesRound(HombresFloat(unified[k], TasasFeminidad[k[2]]))
            IN  [cod_indec |-> k[1], tramo_edad |-> k[2],
                 total_conteo |-> unified[k],
                 tasa_feminidad |-> TasasFeminidad[k[2]],
                 hombres |-> hombres,
                 mujeres |-> Mujeres(unified[k], hombres)]
    IN  [ok |-> TRUE, error |-> "", rows |-> {row(k) : k \in known}]

\* The left merge leaves tasa_feminidad NaN for a bracket the table lacks,
\* and astype(int) raises on the NaN that follows.
LoadCtPopulationData(census) ==
    LET unified == UnifyCensus(census)
        row(k) ==
            LET hombres == SeriesRound(HombresFloat(unified[k], TasasFeminidad[k[2]]))
            IN  [cod_indec |-> k[1], tramo_edad |-> k[2],
                 total_conteo |-> unified[k],
                 tasa_feminidad |-> TasasFeminidad[k[2]],
                 hombres |-> hombres,
                 mujeres |-> Mujeres(unified[k], hombres)]
    IN  IF \E k \in DOMAIN unified : k[2] \notin DOMAIN TasasFeminidad
        THEN [ok |-> FALSE, error |-> "IntCastingNaNError", rows |-> {}]
        ELSE [ok |-> TRUE, error |-> "", rows |-> {row(k) : k \in DOMAIN unified}]

(***************************************************************************)
(* distribute_population_to_h3.                                            *)
(***************************************************************************)
\* A variant: the share of each piece is rounded before the sum.
H3PartRounded(value, prop_to_radio) ==
    RInt(SeriesRound(RMul(RInt(value), prop_to_radio)))

\* Line 376: the share of a unit's count that falls in one piece.
H3Part(value, prop_to_radio) == RMul(RInt(value), prop_to_radio)

\* A variant: the female count is rounded on its own.
MujeresH3Rounded(total_h3, hombres_h3, mujeres_h3_part) == SeriesRound(mujeres_h3_part)

\* A variant: the operands of the remainder are swapped.
MujeresH3Swapped(total_h3, hombres_h3, mujeres_h3_part) == hombres_h3 - total_h3

\* Line 395: the female count is the remainder of the rounded total.
MujeresH3(total_h3, hombres_h3, mujeres_h3_part) == total_h3 - hombres_h3

DistributePopulationToH3(weighted, census) ==
    LET merged == {<<w, c>> \in weighted \X census : w.cod_indec = c.cod_indec}
        keys == {<<m[1].h3_index, m[2].tramo_edad>> : m \in merged}
        part(k, col) ==
            LET mine == {m \in merged : <<m[1].h3_index, m[2].tramo_edad>> = k}
            IN  RSumFn([m \in mine |-> H3Part(m[2][col], m[1].prop_to_radio)])
        row(k) ==
            LET total_part == part(k, "total_conteo")
                hombres_part == part(k, "hombres")
                mujeres_part == part(k, "mujeres")
                hombres_h3 == SeriesRound(hombres_part)
                total_h3 == SeriesRound(total_part)
            IN  [h3_index |-> k[1], tramo_edad |-> k[2],
                 total_conteo_h3_part |-> total_part,
                 hombres_h3_part |-> hombres_part,
                 mujeres_h3_part |-> mujeres_part,
                 hombres_h3 |-> hombres_h3,
                 total_h3 |-> total_h3,
                 mujeres_h3 |-> MujeresH3(total_h3, hombres_h3, mujeres_part)]
    IN  IF \E m \in merged : ~IsFinite(m[1].prop_to_radio)
        THEN [ok |-> FALSE, error |-> "IntCastingNaNError", rows |-> {}]
        ELSE [ok |-> TRUE, error |-> "", rows |-> {row(k) : k \in keys}]

(***************************************************************************)
(* integrate_population_data.                                              *)
(***************************************************************************)
ColsResidentes ==
    {"h3_index", "tramo_edad", "hombres_residentes", "mujeres_residentes",
     "total_residentes"}

\* Lines 414-422: rename the residential columns and keep only those.
RenameResidentes(rows) ==
    {[h3_index |-> r.h3_index, tramo_edad |-> r.tramo_edad,
      hombres_residentes |-> r.hombres_h3,
      mujeres_residentes |-> r.mujeres_h3,
      total_residentes |-> r.total_h3] : r \in rows}

ColsNumericas ==
    {"hombres_residentes", "mujeres_residentes", "total_residentes",
     "hombres_circulante", "mujeres_circulante", "total_circulante",
     "otros_circulante"}

ColsReach == {"hombres_total_reach", "mujeres_total_reach", "total_reach"}

\* Lines 426-442: outer merge on (h3_index, tramo_edad); a numeric column the
\* other source has no value for is filled with 0.
MergeOuter(res, circ) ==
    LET columns == ColsResidentes \cup circ.columns
        key(r) == <<r["h3_index"], r["tramo_edad"]>>
        keys == {key(r) : r \in res} \cup {key(r) : r \in circ.rows}
        value(k, c) ==
            IF c = "h3_index" THEN k[1]
            ELSE IF c = "tramo_edad" THEN k[2]
            ELSE IF c \in ColsResidentes /\ \E r \in res : key(r) = k
                 THEN (CHOOSE r \in res : key(r) = k)[c]
            ELSE IF c \in circ.columns /\ \E r \in circ.rows : key(r) = k
                 THEN (CHOOSE r \in circ.rows : key(r) = k)[c]
            ELSE 0
    IN  [columns |-> columns,
         rows |-> {[c \in columns |-> value(k, c)] : k \in keys}]

\* A variant: the total is rebuilt from the gendered columns.
TotalReachGendered(r) ==
    r["hombres_residentes"] + r["hombres_circulante"]
    + r["mujeres_residentes"] + r["mujeres_circulante"]

\* Lines 448-452.
HombresTotalReach(r) == r["hombres_residentes"] + r["hombres_circulante"]

MujeresTotalReach(r) == r["mujeres_residentes"] + r["mujeres_circulante"]

TotalReach(r) == r["total_residentes"] + r["total_circulante"]

\* A column read at lines 448-452 that the merged frame lacks raises KeyError.
IntegratePopulationData(residentes, circulante) ==
    LET merged == MergeOuter(RenameResidentes(residentes), circulante)
        needed == {"hombres_circulante", "mujeres_circulante", "total_circulante"}
        columns == merged.columns \cup ColsReach
        final(r) ==
            [c \in columns |->
                CASE c = "hombres_total_reach" -> HombresTotalReach(r)
                  [] c = "mujeres_total_reach" -> MujeresTotalReach(r)
                  [] c = "total_reach" -> TotalReach(r)
                  [] OTHER -> r[c]]
    IN  IF ~(needed \subseteq merged.columns)
        THEN [ok |-> FALSE, error |-> "KeyError", columns |-> {}, rows |-> {}]
        ELSE [ok |-> TRUE, error |-> "", columns |-> columns,
              rows |-> {final(r) : r \in merged.rows}]

(***************************************************************************)
(* calculate_kring_reach.                                                  *)
(***************************************************************************)
\* The six cells adjacent to a cell of the hexagonal grid.
HexNeighbors(c) ==
    {<<c[1] + 1, c[2]>>, <<c[1] - 1, c[2]>>, <<c[1], c[2] + 1>>,
     <<c[1], c[2] - 1>>, <<c[1] + 1, c[2] - 1>>, <<c[1] - 1, c[2] + 1>>}

\* A disk that leaves its own center out.
GridRingOnly(center, k) == HexNeighbors(center)

\* h3.grid_disk(center, k): the center and every cell reached from it in at
\* most k steps between adjacent cells.
RECURSIVE GridDisk(_, _)
GridDisk(center, k) ==
    IF k = 0 THEN {center}
    ELSE LET inner == GridDisk(center, k - 1)
         IN  inner \cup UNION {HexNeighbors(c) : c \in inner}

\* A sum over every row of the table, near or far.
KringSumWholeTable(df, center_h3, col, k) ==
    SumFn([r \in df.rows |-> r[col]])

\* Lines 110-120: the sum of one column over the neighbours that have a row.
KringSum(df, center_h3, col, k) ==
    LET with_data == {r \in df.rows : r["h3_index"] \in GridDisk(center_h3, k)}
    IN  SumFn([r \in with_data |-> r[col]])

CalculateKringReach(df, k) ==
    LET cols_to_sum == df.columns \ {"h3_index"}
        all_h3_indices == {r["h3_index"] : r \in df.rows}
        result(center_h3) ==
            [c \in df.columns |->
                IF c = "h3_index" THEN center_h3
                ELSE KringSum(df, center_h3, c, k)]
    IN  [done |-> TRUE,
         columns |-> IF all_h3_indices = {} THEN {} ELSE df.columns,
         rows |-> {result(c) : c \in all_h3_indices}]

(***************************************************************************)
(* run_reach, one action per stage.  A stage that raises ends the run.     *)
(***************************************************************************)
LoadTrips ==
    /\ pc = "load_trips"
    /\ df_etapas' = LoadTripsData(df_etapas)
    /\ pc' = "aggregate"
    /\ UNCHANGED <<error, df_trips_agg, h3_land, radios_censales,
                   h3_land_weighted, census_age, census_data, h3_population,
                   df_final_reach, population_reach_h3, kringVars, adsVars>>

\* aggregate_trips_by_h3 also leaves its new columns in the caller's frame.
AggregateTrips ==
    /\ pc = "aggregate"
    /\ df_trips_agg' = AggregateTripsByH3(df_etapas)
    /\ df_etapas' = WithTramoEdad(df_etapas)
    /\ pc' = "weights"
    /\ UNCHANGED <<error, h3_land, radios_censales, h3_land_weighted,
                   census_age, census_data, h3_population, df_final_reach,
                   population_reach_h3, kringVars, adsVars>>

AddProportions ==
    /\ pc = "weights"
    /\ h3_land_weighted' = AddIntersectionAreaProportions(h3_land, radios_censales)
    /\ pc' = "census"
    /\ UNCHANGED <<error, df_etapas, df_trips_agg, h3_land, radios_censales,
                   census_age, census_data, h3_population, df_final_reach,
                   population_reach_h3, kringVars, adsVars>>

LoadCensus ==
    /\ pc = "census"
    /\ LET res == LoadCtPopulationData(census_age)
       IN  /\ census_data' = res.rows
           /\ error' = res.error
           /\ pc' = IF res.ok THEN "distribute" ELSE "failed"
    /\ UNCHANGED <<df_etapas, df_trips_agg, h3_land, radios_censales,
                   h3_land_weighted, census_age, h3_population, df_final_reach,
                   population_reach_h3, kringVars, adsVars>>

Distribute ==
    /\ pc = "distribute"
    /\ LET res == DistributePopulationToH3(h3_land_weighted, census_data)
       IN  /\ h3_population' = res.rows
           /\ error' = res.error
           /\ pc' = IF res.ok THEN "integrate" ELSE "failed"
    /\ UNCHANGED <<df_etapas, df_trips_agg, h3_land, radios_censales,
                   h3_land_weighted, census_age, census_data, df_final_reach,
                   population_reach_h3, kringVars, adsVars>>

\* A variant that writes the output file before it knows whether the
\* integration succeeded.
IntegrateWritingEarly ==
    /\ pc = "integrate"
    /\ LET res == IntegratePopulationData(h3_population, df_trips_agg)
       IN  /\ df_final_reach' = [columns |-> res.columns, rows |-> res.rows]
           /\ population_reach_h3' =
                  [exists |-> TRUE, table |-> [columns |-> res.columns, rows |-> res.rows]]
           /\ error' = res.error
           /\ pc' = IF res.ok THEN "save" ELSE "failed"
    /\ UNCHANGED <<df_etapas, df_trips_agg, h3_land, radios_censales,
                   h3_land_weighted, census_age, census_data, h3_population,
                   kringVars, adsVars>>

Integrate ==
    /\ pc = "integrate"
    /\ LET res == IntegratePopulationData(h3_population, df_trips_agg)
       IN  /\ df_final_reach' = [columns |-> res.columns, rows |-> res.rows]
           /\ error' = res.error
           /\ pc' = IF res.ok THEN "save" ELSE "failed"
    /\ UNCHANGED <<df_etapas, df_trips_agg, h3_land, radios_censales,
                   h3_land_weighted, census_age, census_data, h3_population,
                   population_reach_h3, kringVars, adsVars>>

\* df_final_reach.to_parquet(output_path)
SaveReach ==
    /\ pc = "save"
    /\ population_reach_h3' = [exists |-> TRUE, table |-> df_final_reach]
    /\ pc' = "done"
    /\ UNCHANGED <<error, df_etapas, df_trips_agg, h3_land, radios_censales,
                   h3_land_weighted, census_age, census_data, h3_population,
                   df_final_reach, kringVars, adsVars>>

KringReach ==
    /\ ~df_reach_kring.done
    /\ df_reach_kring' = CalculateKringReach(df_pop_wide, kring_k)
    /\ UNCHANGED <<reachVars, df_pop_wide, kring_k, adsVars>>

(***************************************************************************)
(* Inputs.                                                                 *)
(***************************************************************************)
CsvColumns ==
    {"id_tarjeta", "factor_expansion_viaje", "genero", "grupo_edad",
     "departamento_origen_viaje", "latitud_origen_viaje", "longitud_origen_viaje",
     "departamento_destino_viaje", "latitud_destino_viaje", "longitud_destino_viaje"}

\* One end of a leg: jurisdiction code and coordinates.
Side(dep, lat, lon) == [dep |-> Num(dep), lat |-> Num(lat), lon |-> Num(lon)]

Leg(id, factor, genero, edad, o, d) ==
    [c \in CsvColumns |->
        CASE c = "id_tarjeta" -> id
          [] c = "factor_expansion_viaje" -> factor
          [] c = "genero" -> genero
          [] c = "grupo_edad" -> edad
          [] c = "departamento_origen_viaje" -> o.dep
          [] c = "latitud_origen_viaje" -> o.lat
          [] c = "longitud_origen_viaje" -> o.lon
          [] c = "departamento_destino_viaje" -> d.dep
          [] c = "latitud_destino_viaje" -> d.lat
          [] c = "longitud_destino_viaje" -> d.lon]

\* The sequences over S of length lo to hi.
SeqsOfLen(S, lo, hi) == UNION {[1..m -> S] : m \in lo..hi}

Csv(rows) == [columns |-> CsvColumns, rows |-> rows]

\* Two points of cell <<0, 0>> and one of cell <<1, 0>>, inside the city
\* (codes 2000..5999), and a point outside it.
InP1 == Side(2000, 0, 0)

InP1b == Side(5999, 1, 1)

InP2 == Side(2000, 0, 2)

OutP2 == Side(6000, 0, 2)

Riders == {Str("X"), Str("Y")}

Generos == {Str("M"), Str("F"), Str("X")}

Factors == {R(1, 2), R(1, 1)}

\* Legs for the deduplication: riders, genders, weights and routes vary.
LegsDedup ==
    {Leg(id, f, g, Num(25), sh[1], sh[2]) :
        id \in Riders, f \in Factors, g \in Generos,
        sh \in {<<InP1, InP2>>, <<InP2, InP1b>>, <<OutP2, InP1>>}}

EdadInputs ==
    {Num(0), Num(4), Num(7), Num(25), Num(26), Num(99), Num(100), Num(104),
     NaN, Str("s/d")}

\* Legs for the age brackets: one rider arriving at one cell, ages vary.
LegsEdad == {Leg(Str("X"), R(1, 1), Str("M"), e, OutP2, InP1) : e \in EdadInputs}

\* Legs for the integration: riders, genders and weights vary.
LegsReach ==
    {Leg(id, f, g, Num(25), OutP2, InP1) :
        id \in Riders, f \in Factors, g \in Generos}

\* A male and a female rider arriving at cell <<0, 0>>.
BaseLegs ==
    <<Leg(Str("A"), R(1, 1), Str("M"), Num(25), OutP2, InP1),
      Leg(Str("B"), R(1, 1), Str("F"), Num(25), OutP2, InP1)>>

\* Trip legs of run_reach: with or without the two base riders, then up to
\* MaxLegs further legs; at least one leg.
TripInputs ==
    {Csv(base \o rows) : base \in {<<>>, BaseLegs},
                         rows \in SeqsOfLen(LegsReach, 0, MaxLegs)}
    \ {Csv(<<>>)}

\* Ends of a leg: in the city at either end of the code range, outside it
\* just below and just above the range, and in the city with the latitude
\* or the longitude missing.  The four mappable ends lie in four cells.
InP3 == Side(5999, 2, 0)

OutP4 == Side(1999, 2, 2)

NoLat == [dep |-> Num(2000), lat |-> NaN, lon |-> Num(0)]

NoLon == [dep |-> Num(5999), lat |-> Num(0), lon |-> NaN]

Sides == {InP1, InP3, OutP2, OutP4, NoLat, NoLon}

\* Legs of one rider between any two of the ends.
LegsSides == {Leg(Str("X"), R(1, 1), Str("M"), Num(25), o, d) : o \in Sides, d \in Sides}

\* Another rider arriving at cell <<0, 0>>, then up to MaxLegs legs of the
\* first rider.
SidesInputs ==
    {Csv(<<Leg(Str("Y"), R(1, 1), Str("F"), Num(25), OutP2, InP1)>> \o rows) :
        rows \in SeqsOfLen(LegsSides, 0, MaxLegs)}

\* A trip-leg file that lacks some columns.
CsvWithout(rows, missing) ==
    [columns |-> CsvColumns \ missing,
     rows |-> [i \in 1..Len(rows) |-> [c \in CsvColumns \ missing |-> rows[i][c]]]]

\* Trip-leg files with or without the age column and the gender column.
ColumnsInputs ==
    {CsvWithout(rows, missing) :
        rows \in SeqsOfLen(LegsReach, 1, MaxLegs),
        missing \in SUBSET {"grupo_edad", "genero"}}

\* Riders of every gender arriving at cell <<0, 0>>, one of unknown age, and
\* one rider travelling between the two cells.
CsvFixed ==
    Csv(<<Leg(Str("X"), R(1, 1), Str("M"), Num(25), OutP2, InP1),
          Leg(Str("Y"), R(3, 2), Str("F"), Num(25), InP1, InP2),
          Leg(Str("Z"), R(1, 1), Str("X"), Num(25), OutP2, InP1),
          Leg(Str("W"), R(1, 2), Str("M"), NaN, OutP2, InP1b)>>)

\* Two census units and a third, degenerate one of area 0.
Radios ==
    {[cod_indec |-> "R1", area |-> 10], [cod_indec |-> "R2", area |-> 4],
     [cod_indec |-> "R3", area |-> 0]}

Piece(h3, radio, area) == [h3_index |-> h3, cod_indec |-> radio, area |-> area]

\* Overlays of the units with the cells: unit R1 whole, split 70/30, split
\* in halves or partly outside the grid; unit R2 sharing cells with R1, in a
\* cell of its own or partly outside the grid; with or without a piece of
\* the degenerate unit.
LandInputs ==
    {a \cup b \cup z :
        a \in {{Piece(<<0, 0>>, "R1", 10)},
               {Piece(<<0, 0>>, "R1", 7), Piece(<<1, 0>>, "R1", 3)},
               {Piece(<<0, 0>>, "R1", 5), Piece(<<1, 0>>, "R1", 5)},
               {Piece(<<1, 0>>, "R1", 5)}},
        b \in {{Piece(<<0, 0>>, "R2", 4)},
               {Piece(<<0, 0>>, "R2", 2), Piece(<<1, 0>>, "R2", 2)},
               {Piece(<<1, 1>>, "R2", 4)},
               {Piece(<<1, 0>>, "R2", 1)}},
        z \in {{}, {Piece(<<0, 0>>, "R3", 0)}}}

LandFixed ==
    {Piece(<<0, 0>>, "R1", 5), Piece(<<1, 0>>, "R1", 5), Piece(<<0, 0>>, "R2", 4)}

Census(radio, tramo, n) == [cod_indec |-> radio, tramo_edad |-> tramo, total_conteo |-> n]

\* Census counts of bracket '25 A 29' in both units, alone, with the two top
\* brackets of one unit, with a bracket the ratio table lacks, with larger
\* counts of two other brackets, or with a count of the degenerate unit.
CensusInputs ==
    {{Census("R1", "25 A 29", a), Census("R2", "25 A 29", b)} \cup extra :
        a \in 0..MaxPop, b \in 0..MaxPop,
        extra \in {{},
                   {Census("R1", "100 A 104", 1), Census("R1", "105 Y MÁS", 2)},
                   {Census("R2", "SIN DATO", 1)},
                   {Census("R1", "30 A 34", 100), Census("R1", "40 A 44", 21)},
                   {Census("R3", "25 A 29", 2)}}}

CensusFixed == {Census("R1", "25 A 29", 3), Census("R2", "25 A 29", 1)}

\* A patch of the grid with cells 1, 2 and 3 steps apart.
GridCells == {<<0, 0>>, <<1, 0>>, <<1, 1>>, <<3, 0>>}

WideColumns == {"h3_index", "total_reach", "total_residentes"}

WideRow(c, reach, res) ==
    [h3_index |-> c, total_reach |-> reach, total_residentes |-> res]

\* Wide tables: any subset of the patch, one row per cell.
WideInputs ==
    UNION {{[columns |-> WideColumns,
             rows |-> {WideRow(c, f[c][1], f[c][2]) : c \in cells}] :
                f \in [cells -> {5, 10, 1000} \X (0..MaxMetric)]} :
           cells \in SUBSET GridCells}

(***************************************************************************)
(* Strings.  A str is the sequence of its characters, so that strip,       *)
(* lower, replace and the regular expressions act on what is written.      *)
(***************************************************************************)
\* The characters str.strip() and the regex class \s take for whitespace.
IsSpace(c) == c \in {" ", "\t"}

\* str.lower() on one character.
LowerChar(c) ==
    CASE c = "A" -> "a"
      [] c = "B" -> "b"
      [] c = "C" -> "c"
      [] c = "E" -> "e"
      [] c = "X" -> "x"
      [] c = "Á" -> "á"
      [] OTHER -> c

StrLower(s) == [i \in 1..Len(s) |-> LowerChar(s[i])]

\* str.strip(): without its leading and trailing whitespace.
StrStrip(s) ==
    LET ink == {i \in 1..Len(s) : ~IsSpace(s[i])}
    IN  IF ink = {} THEN <<>>
        ELSE SubSeq(s, CHOOSE i \in ink : \A j \in ink : i <= j,
                       CHOOSE i \in ink : \A j \in ink : j <= i)

(***************************************************************************)
(* GeocodingService: geocode and bulk_geocode over the SQLite cache.       *)
(***************************************************************************)
\* Python's None in a text position and in a number position.
NoneText == [kind |-> "none", val |-> <<>>]

NoneNum == [kind |-> "none", val |-> 0]

NoneTriple == [found_address |-> NoneText, lat |-> NoneNum, lon |-> NoneNum]

\* What geolocator.geocode does when it is called: a location, None, or one
\* of the two exceptions geocode catches.
Location(address, lat, lon) ==
    [kind |-> "location", address |-> address, latitude |-> lat,
     longitude |-> lon]

ApiNone == [kind |-> "None"]

GeocoderTimedOut == [kind |-> "GeocoderTimedOut"]

GeocoderUnavailable == [kind |-> "GeocoderUnavailable"]

NotCalled == [kind |-> "not called"]

\* cache_key = str(address).strip().lower()
\* A variant that looks the address up as it was written.
CacheKeyAsWritten(address) == address.val

CacheKey(address) == StrLower(StrStrip(address.val))

\* _get_from_cache: the row stored under the key, or None.
\* A variant that never finds a row.
GetFromCacheMissing(cache, key) == [kind |-> "None"]

GetFromCache(cache, key) ==
    IF key \in DOMAIN cache THEN cache[key] ELSE [kind |-> "None"]

\* _save_to_cache: INSERT OR REPLACE of one row.
\* A variant that stores nothing.
SaveToCacheNothing(cache, key, lat, lon) == cache

SaveToCache(cache, key, lat, lon) ==
    [k \in DOMAIN cache \cup {key} |->
        IF k = key THEN [kind |-> "row", lat |-> lat, long |-> lon]
        ELSE cache[k]]

\* What geocode does when the service found nothing: a warning, no write.
\* A variant that remembers the failure as a row without coordinates.
NotFoundCached(cache, key) ==
    [k \in DOMAIN cache \cup {key} |->
        IF k = key THEN [kind |-> "row", lat |-> NoneNum, long |-> NoneNum]
        ELSE cache[k]]

NotFound(cache, key) == cache

\* geocode(address) on the cache, api being what the service answers if it
\* is asked: the returned triple, the cache afterwards and whether the
\* service was asked.
Geocode(cache, address, api) ==
    IF address.kind = "none" \/ address.val = <<>>
    THEN [result |-> NoneTriple, cache |-> cache, api |-> NotCalled]
    ELSE LET cache_key == CacheKey(address)
             cached == GetFromCache(cache, cache_key)
         IN  IF cached.kind = "row"
             THEN [result |-> [found_address |-> address, lat |-> cached.lat,
                               lon |-> cached.long],
                   cache |-> cache, api |-> NotCalled]
             ELSE IF api.kind = "location"
             THEN [result |-> [found_address |-> Str(api.address),
                               lat |-> Num(api.latitude),
                               lon |-> Num(api.longitude)],
                   cache |-> SaveToCache(cache, cache_key, Num(api.latitude),
                                         Num(api.longitude)),
                   api |-> api]
             ELSE IF api.kind = "None"
             THEN [result |-> NoneTriple, cache |-> NotFound(cache, cache_key),
                   api |-> api]
             ELSE [result |-> NoneTriple, cache |-> cache, api |-> api]

\* One entry of the call log.
GeoCall(address, before, g) ==
    [address |-> address, before |-> before, api |-> g.api,
     result |-> g.result, after |-> g.cache]

\* bulk_geocode: geocode on every row of the address column, in order;
\* apis[i] is what the service answers for row i if it is asked.
RECURSIVE BulkGeocode(_, _, _, _)
BulkGeocode(cache, column, apis, i) ==
    IF i > Len(column) THEN <<>>
    ELSE LET g == Geocode(cache, column[i], apis[i])
         IN  <<GeoCall(column[i], cache, g)>>
             \o BulkGeocode(g.cache, column, apis, i + 1)

\* Addresses: one street written three ways, another street, a blank
\* string, the empty string and a missing value.
GeoAddresses ==
    {Str(<<"a", "b">>), Str(<<"A", "b">>), Str(<<" ", "A", "B", "\t">>),
     Str(<<"c">>), Str(<<" ">>), Str(<<>>), NoneText}

\* The two places the service knows.
Locations ==
    {Location(<<"A", "b", ",", "X">>, -34, -58),
     Location(<<"C", ",", "X">>, -35, -59)}

ApiKinds == Locations \cup {ApiNone, GeocoderTimedOut, GeocoderUnavailable}

\* The service has no place to return for a query without a visible
\* character.
ApiAnswers(address) ==
    IF address.kind = "str" /\ StrStrip(address.val) # <<>>
    THEN ApiKinds
    ELSE ApiKinds \ Locations

\* The cache an earlier run left, holding "ab".
StoredCache ==
    [k \in {<<"a", "b">>} |->
        [kind |-> "row", lat |-> Num(-34), long |-> Num(-58)]]

\* One geocode call: any address, and any answer of the service.
GeocodeCall ==
    /\ Len(geo_log) < MaxCalls
    /\ \E address \in GeoAddresses :
         \E api \in ApiAnswers(address) :
            LET g == Geocode(geocache, address, api)
            IN  /\ geocache' = g.cache
                /\ geo_log' = Append(geo_log, GeoCall(address, geocache, g))
    /\ UNCHANGED <<reachVars, kringVars, downloadVars, textVars, pointsVars,
                   tripsFileVars>>

\* One bulk_geocode call on a table of one or two rows.
BulkGeocodeCall ==
    /\ \E column \in SeqsOfLen(GeoAddresses, 1, 2) :
         /\ Len(geo_log) + Len(column) <= MaxCalls
         /\ \E apis \in [1..Len(column) -> ApiKinds] :
              /\ \A i \in 1..Len(column) : apis[i] \in ApiAnswers(column[i])
              /\ LET calls == BulkGeocode(geocache, column, apis, 1)
                 IN  /\ geocache' = calls[Len(calls)].after
                     /\ geo_log' = geo_log \o calls
    /\ UNCHANGED <<reachVars, kringVars, downloadVars, textVars, pointsVars,
                   tripsFileVars>>

(***************************************************************************)
(* download_file: a streamed download to dest_path.                        *)
(***************************************************************************)
Absent == [exists |-> FALSE, content |-> <<>>]

\* What requests.get answers: the request fails, the status is an error, or
\* a stream of chunks that ends or breaks after deliver chunks.
Response(request, chunks, deliver) ==
    [request |-> request, chunks |-> chunks, deliver |-> deliver]

\* No request was made.
NoRequest == Response("none", <<>>, 0)

\* f.write(chunk) for each chunk, on the content written so far.
RECURSIVE WriteChunks(_, _, _)
WriteChunks(content, chunks, i) ==
    IF i > Len(chunks) THEN content
    ELSE WriteChunks(content \o chunks[i], chunks, i + 1)

\* The except branch: a file left at dest_path is deleted.
\* A variant that leaves the file where it is.
CleanupKeeping(file) == file

Cleanup(file) == IF file.exists THEN Absent ELSE file

\* download_file(url, dest_folder, filename, force) on the file at
\* dest_path: the file afterwards and the exception raised, "" if none.
DownloadFile(file, force, response) ==
    IF file.exists /\ ~force
    THEN [file |-> file, raised |-> "", downloaded |-> FALSE,
          requested |-> FALSE]
    ELSE IF response.request # "ok"
    THEN [file |-> Cleanup(file), raised |-> response.request,
          downloaded |-> FALSE, requested |-> TRUE]
    ELSE LET opened == [exists |-> TRUE, content |-> <<>>]
             received == SubSeq(response.chunks, 1, response.deliver)
             written == [opened EXCEPT
                            !.content = WriteChunks(<<>>, received, 1)]
         IN  IF response.deliver < Len(response.chunks)
             THEN [file |-> Cleanup(written),
                   raised |-> "ChunkedEncodingError", downloaded |-> FALSE,
                   requested |-> TRUE]
             ELSE [file |-> written, raised |-> "", downloaded |-> TRUE,
                   requested |-> TRUE]

\* Chunks of one and of two bytes.
Chunks == {<<"x">>, <<"y", "z">>}

Responses ==
    {Response("ConnectionError", <<>>, 0), Response("HTTPError", <<>>, 0)}
    \cup UNION {{Response("ok", chunks, deliver) : deliver \in 0..Len(chunks)} :
                    chunks \in SeqsOfLen(Chunks, 0, MaxChunks)}

\* The file of an earlier download.
Downloaded == [exists |-> TRUE, content |-> <<"o">>]

\* One call of download_file.
DownloadFileCall ==
    /\ Len(download_log) < MaxDownloads
    /\ \E force \in BOOLEAN, response \in Responses :
         LET d == DownloadFile(dest_file, force, response)
         IN  /\ dest_file' = d.file
             /\ download_log' =
                    Append(download_log,
                           [force |-> force,
                            response |-> IF d.requested THEN response
                                         ELSE NoRequest,
                            before |-> dest_file, raised |-> d.raised,
                            downloaded |-> d.downloaded, after |-> d.file])
    /\ UNCHANGED <<reachVars, kringVars, geocodeVars, textVars, pointsVars,
                   tripsFileVars>>

(***************************************************************************)
(* load_trips_data: the download of the trip-leg file and its local copy.  *)
(***************************************************************************)
NotRead == [done |-> FALSE, content |-> <<>>]

\* Lines 43-56 of load_trips_data on the file at local_path: the file
\* afterwards, the exception raised ("" if none), whether the local file
\* was taken for the cached dataset, and what read_csv was given.
LoadTripsFile(file, response) ==
    IF ~file.exists
    THEN IF response.request # "ok"
         THEN [file |-> file, raised |-> response.request, cached |-> FALSE,
               read |-> NotRead]
         ELSE LET received == SubSeq(response.chunks, 1, response.deliver)
                  written == [exists |-> TRUE,
                              content |-> WriteChunks(<<>>, received, 1)]
              IN  IF response.deliver < Len(response.chunks)
                  THEN [file |-> written, raised |-> "ChunkedEncodingError",
                        cached |-> FALSE, read |-> NotRead]
                  ELSE [file |-> written, raised |-> "", cached |-> FALSE,
                        read |-> [done |-> TRUE, content |-> written.content]]
    ELSE [file |-> file, raised |-> "", cached |-> TRUE,
          read |-> [done |-> TRUE, content |-> file.content]]

\* One call of load_trips_data, up to read_csv.
LoadTripsFileCall ==
    /\ Len(trips_runs) < MaxRuns
    /\ \E response \in Responses :
         LET l == LoadTripsFile(trips_file, response)
         IN  /\ trips_file' = l.file
             /\ trips_runs' =
                    Append(trips_runs,
                           [response |-> IF l.cached THEN NoRequest
                                         ELSE response,
                            before |-> trips_file,
                            raised |-> l.raised, cached |-> l.cached,
                            read |-> l.read, after |-> l.file])
    /\ UNCHANGED <<reachVars, kringVars, geocodeVars, downloadVars, textVars,
                   pointsVars>>

(***************************************************************************)
(* clean_column_name.                                                      *)
(***************************************************************************)
\* unicodedata.normalize('NFKD', name) without its combining characters: an
\* accented letter becomes its base letter.
StripAccent(c) ==
    CASE c = "Á" -> "A"
      [] c = "á" -> "a"
      [] OTHER -> c

StripAccents(s) == [i \in 1..Len(s) |-> StripAccent(s[i])]

\* str.replace(old, new) for a one-character old: every occurrence, one by
\* one.
RECURSIVE StrReplace(_, _, _)
StrReplace(s, old, new) ==
    IF s = <<>> THEN <<>>
    ELSE (IF Head(s) = old THEN new ELSE <<Head(s)>>)
         \o StrReplace(Tail(s), old, new)

\* name_ascii.lower().strip().replace(' ', '_').replace('.', '')
CleanColumnName(name) ==
    LET name_ascii == StripAccents(name)
    IN  StrReplace(StrReplace(StrStrip(StrLower(name_ascii)), " ", <<"_">>),
                   ".", <<>>)

\* The characters of the column names tried.
NameChars == {" ", "\t", ".", "A", "Á", "b"}

NameInputs == SeqsOfLen(NameChars, 0, MaxName)

\* clean_column_name on the name, or on what the last call returned.
CleanColumnNameCall ==
    /\ Len(column_names) \in 1..2
    /\ column_names' =
           Append(column_names,
                  CleanColumnName(column_names[Len(column_names)]))
    /\ UNCHANGED <<reachVars, kringVars, geocodeVars, downloadVars, addresses,
                   addresses_norm, pointsVars, tripsFileVars>>

(***************************************************************************)
(* normalize_address_text: the regular expressions of the replacement      *)
(* table, applied in the order of the table.                               *)
(***************************************************************************)
\* A character the regex class \w takes: a letter, not whitespace and not
\* punctuation.
IsWordChar(c) == ~IsSpace(c) /\ c \notin {".", ","}

\* \b before position i of s (i = Len(s) + 1 is the end of s).
AtBoundary(s, i) ==
    (i > 1 /\ IsWordChar(s[i - 1])) # (i <= Len(s) /\ IsWordChar(s[i]))

\* A pattern of the table: \b or not, then one atom per character (a
\* literal, "ANY" for . or "SPACE" for \s), then \b or not.
Regex(b0, atoms, b1) == [b0 |-> b0, atoms |-> atoms, b1 |-> b1]

AtomMatches(a, c) ==
    CASE a = "ANY" -> TRUE
      [] a = "SPACE" -> IsSpace(c)
      [] OTHER -> a = c

\* The pattern matches s from position i on.
MatchesAt(s, i, re) ==
    /\ i + Len(re.atoms) - 1 <= Len(s)
    /\ re.b0 => AtBoundary(s, i)
    /\ \A k \in 1..Len(re.atoms) : AtomMatches(re.atoms[k], s[i + k - 1])
    /\ re.b1 => AtBoundary(s, i + Len(re.atoms))

\* re.sub(pattern, repl, s): the matches from left to right, not
\* overlapping.
RECURSIVE ReSub(_, _, _, _)
ReSub(s, re, repl, i) ==
    IF i > Len(s) THEN <<>>
    ELSE IF MatchesAt(s, i, re)
         THEN repl \o ReSub(s, re, repl, i + Len(re.atoms))
         ELSE <<s[i]>> \o ReSub(s, re, repl, i + 1)

\* The replacements dict, in its order.
Replacements ==
<<
    [pattern |-> Regex(TRUE, <<"A", "v", "d", "a">>, TRUE),
     repl |-> <<"A", "v", "e", "n", "i", "d", "a">>],
    [pattern |-> Regex(TRUE, <<"A", "v">>, TRUE),
     repl |-> <<"A", "v", "e", "n", "i", "d", "a">>],
    [pattern |-> Regex(TRUE, <<"A", "v", "ANY">>, TRUE),
     repl |-> <<"A", "v", "e", "n", "i", "d", "a">>],
    [pattern |-> Regex(TRUE, <<"P", "j", "e">>, TRUE),
     repl |-> <<>>],
    [pattern |-> Regex(TRUE, <<"B", "l", "v", "d">>, TRUE),
     repl |-> <<>>],
    [pattern |-> Regex(TRUE, <<"P", "t", "e", "SPACE">>, FALSE),
     repl |-> <<>>],
    [pattern |-> Regex(TRUE, <<"G", "o", "b", "SPACE">>, FALSE),
     repl |-> <<>>],
    [pattern |-> Regex(TRUE, <<"D", "r", "SPACE">>, FALSE),
     repl |-> <<>>],
    [pattern |-> Regex(TRUE, <<"I", "n", "t", "SPACE">>, FALSE),
     repl |-> <<>>],
    [pattern |-> Regex(TRUE, <<"T", "t", "e", " ", "G", "r", "a", "l", "SPACE">>, FALSE),
     repl |-> <<>>],
    [pattern |-> Regex(TRUE, <<"S", "d", "o">>, TRUE),
     repl |-> <<"S", "o", "l", "d", "a", "d", "o">>],
    [pattern |-> Regex(TRUE, <<"G", "r", "a", "l">>, TRUE),
     repl |-> <<"G", "e", "n", "e", "r", "a", "l">>],
    [pattern |-> Regex(TRUE, <<"C", "n", "e", "l">>, TRUE),
     repl |-> <<"C", "o", "r", "o", "n", "e", "l">>],
    [pattern |-> Regex(TRUE, <<"A", "l", "m", "t", "e">>, TRUE),
     repl |-> <<"A", "l", "m", "i", "r", "a", "n", "t", "e">>],
    [pattern |-> Regex(TRUE, <<"C", "m", "d", "r", "o">>, TRUE),
     repl |-> <<"C", "o", "m", "o", "d", "o", "r", "o">>],
    [pattern |-> Regex(TRUE, <<"R", "g", "t", "o">>, TRUE),
     repl |-> <<"R", "e", "g", "i", "m", "i", "e", "n", "t", "o">>],
    [pattern |-> Regex(TRUE, <<"F", "g", "t", "a">>, TRUE),
     repl |-> <<"F", "r", "a", "g", "a", "t", "a">>],
    [pattern |-> Regex(FALSE, <<"J", "u", "a", "n", " ", "B", " ", "A", "l", "b", "e", "r", "d", "i">>, FALSE),
     repl |-> <<"J", "u", "a", "n", " ", "B", "a", "u", "t", "i", "s", "t", "a", " ", "A", "l", "b", "e", "r", "d", "i">>]
>>

\* for pattern, replacement in replacements.items(): str.replace(regex=True)
RECURSIVE ApplyReplacements(_, _)
ApplyReplacements(s, k) ==
    IF k > Len(Replacements) THEN s
    ELSE ApplyReplacements(
             ReSub(s, Replacements[k].pattern, Replacements[k].repl, 1), k + 1)

\* str.replace(r'\s+', ' ', regex=True)
RECURSIVE CollapseWhitespace(_, _)
CollapseWhitespace(s, i) ==
    IF i > Len(s) THEN <<>>
    ELSE IF ~IsSpace(s[i]) THEN <<s[i]>> \o CollapseWhitespace(s, i + 1)
    ELSE IF i > 1 /\ IsSpace(s[i - 1]) THEN CollapseWhitespace(s, i + 1)
    ELSE <<" ">> \o CollapseWhitespace(s, i + 1)

\* normalize_address_text(df, col_name): the normalized column.
NormalizeAddressText(column) ==
    [i \in 1..Len(column) |->
        StrStrip(CollapseWhitespace(ApplyReplacements(column[i], 1), 1))]

\* The abbreviations the table lists, each with what it stands for (nothing
\* when the table removes it).
Abbreviations ==
{
    [written |-> <<"A", "v", "d", "a">>,
     full |-> <<"A", "v", "e", "n", "i", "d", "a">>],
    [written |-> <<"A", "v">>,
     full |-> <<"A", "v", "e", "n", "i", "d", "a">>],
    [written |-> <<"P", "j", "e">>,
     full |-> <<>>],
    [written |-> <<"B", "l", "v", "d">>,
     full |-> <<>>],
    [written |-> <<"P", "t", "e">>,
     full |-> <<>>],
    [written |-> <<"G", "o", "b">>,
     full |-> <<>>],
    [written |-> <<"D", "r">>,
     full |-> <<>>],
    [written |-> <<"I", "n", "t">>,
     full |-> <<>>],
    [written |-> <<"T", "t", "e", " ", "G", "r", "a", "l">>,
     full |-> <<>>],
    [written |-> <<"S", "d", "o">>,
     full |-> <<"S", "o", "l", "d", "a", "d", "o">>],
    [written |-> <<"G", "r", "a", "l">>,
     full |-> <<"G", "e", "n", "e", "r", "a", "l">>],
    [written |-> <<"C", "n", "e", "l">>,
     full |-> <<"C", "o", "r", "o", "n", "e", "l">>],
    [written |-> <<"A", "l", "m", "t", "e">>,
     full |-> <<"A", "l", "m", "i", "r", "a", "n", "t", "e">>],
    [written |-> <<"C", "m", "d", "r", "o">>,
     full |-> <<"C", "o", "m", "o", "d", "o", "r", "o">>],
    [written |-> <<"R", "g", "t", "o">>,
     full |-> <<"R", "e", "g", "i", "m", "i", "e", "n", "t", "o">>],
    [written |-> <<"F", "g", "t", "a">>,
     full |-> <<"F", "r", "a", "g", "a", "t", "a">>]
}

\* An abbreviation with or without a period, one or two spaces, a street.
Abbreviated(a, period, gap) == a.written \o period \o gap \o <<"X">>

AddressInputs ==
    {Abbreviated(a, period, gap) :
        a \in Abbreviations, period \in {<<>>, <<".">>},
        gap \in {<<" ">>, <<" ", " ">>}}
    \cup {<<"C", " ", " ", "X">>, <<" ", "X", " ">>,
          <<"J", "u", "a", "n", " ", "B", " ", "A", "l", "b", "e", "r", "d", "i">>}

\* One call of normalize_address_text on the address column.
NormalizeAddressTextCall ==
    /\ ~addresses_norm.done
    /\ addresses_norm' = [done |-> TRUE, columns |-> {"calle_nombre_norm"},
                          rows |-> NormalizeAddressText(addresses)]
    /\ UNCHANGED <<reachVars, kringVars, geocodeVars, downloadVars,
                   column_names, addresses, pointsVars, tripsFileVars>>

(***************************************************************************)
(* add_h3_index as a whole: its arguments, what it returns and what it     *)
(* does to the table it is given.                                          *)
(***************************************************************************)
\* out_col = f"h3_res{resolution}" when out_col is None.
OutCol(resolution, out_col) ==
    IF out_col.kind = "none" THEN "h3_res" \o Decimal(resolution)
    ELSE out_col.val

\* add_h3_index(df, lat_col, lon_col, resolution, out_col, inplace): the
\* exception raised ("" if none), what is returned, and the caller's table
\* afterwards.  The cells are those of the one resolution the model has.
AddH3IndexOn(df, lat_col, lon_col, resolution, out_col, inplace) ==
    LET name == OutCol(resolution, out_col)
        nothing == [kind |-> "nothing", name |-> "", values |-> <<>>,
                    table |-> EmptyTable]
    IN  IF lat_col \notin df.columns \/ lon_col \notin df.columns
        THEN [raised |-> "KeyError", returned |-> nothing, df |-> df]
        ELSE LET h3_series == AddH3Index(df.rows, lat_col, lon_col)
                 assigned ==
                     [columns |-> df.columns \cup {name},
                      rows |-> [i \in 1..Len(df.rows) |->
                                  WithCol(df.rows[i], name, h3_series[i])]]
             IN  IF inplace
                 THEN [raised |-> "",
                       returned |-> [kind |-> "DataFrame", name |-> "",
                                     values |-> <<>>, table |-> assigned],
                       df |-> assigned]
                 ELSE [raised |-> "",
                       returned |-> [kind |-> "Series", name |-> name,
                                     values |-> h3_series,
                                     table |-> EmptyTable],
                       df |-> df]

\* Points with or without a latitude and a longitude.
PointColumns == {"id", "lat", "long"}

Point(lat, lon) ==
    [c \in PointColumns |->
        CASE c = "id" -> Num(1) [] c = "lat" -> lat [] c = "long" -> lon]

Coordinates == {Num(0), Num(2), NaN}

Points == {Point(lat, lon) : lat \in Coordinates, lon \in Coordinates}

\* Tables of up to MaxPoints points, with or without the two columns.
PointsInputs ==
    {[columns |-> PointColumns \ missing,
      rows |-> [i \in 1..Len(rows) |->
                  [c \in PointColumns \ missing |-> rows[i][c]]]] :
        rows \in SeqsOfLen(Points, 0, MaxPoints),
        missing \in {{}, {"lat"}, {"long"}}}

\* One call of add_h3_index on the table.
AddH3IndexCall ==
    /\ ~h3_call.done
    /\ \E resolution \in {9, 10}, out_col \in {NoneText, Str("h3_idx")},
          inplace \in BOOLEAN :
         LET a == AddH3IndexOn(points, "lat", "long", resolution, out_col,
                               inplace)
         IN  /\ points' = a.df
             /\ h3_call' = [done |-> TRUE, resolution |-> resolution,
                            out_col |-> out_col, inplace |-> inplace,
                            before |-> points, raised |-> a.raised,
                            returned |-> a.returned]
    /\ UNCHANGED <<reachVars, kringVars, geocodeVars, downloadVars, textVars,
                   tripsFileVars>>

(***************************************************************************)
(* Specifications.                                                         *)
(***************************************************************************)
NotRun == [done |-> FALSE, columns |-> {}, rows |-> {}]

InitStages ==
    /\ pc = "load_trips"
    /\ error = ""
    /\ df_trips_agg = EmptyTable
    /\ radios_censales = Radios
    /\ h3_land_weighted = {}
    /\ census_data = {}
    /\ h3_population = {}
    /\ df_final_reach = EmptyTable
    /\ population_reach_h3 = [exists |-> FALSE, table |-> EmptyTable]

InitKringIdle ==
    /\ df_pop_wide = EmptyTable
    /\ kring_k = 1
    /\ df_reach_kring = NotRun

InitGeocodeIdle ==
    /\ geocache = <<>>
    /\ geo_log = <<>>

InitDownloadIdle ==
    /\ dest_file = [exists |-> FALSE, content |-> <<>>]
    /\ download_log = <<>>

InitTextIdle ==
    /\ column_names = <<>>
    /\ addresses = <<>>
    /\ addresses_norm = NotRun

InitPointsIdle ==
    /\ points = EmptyTable
    /\ h3_call = NotRun

InitTripsFileIdle ==
    /\ trips_file = [exists |-> FALSE, content |-> <<>>]
    /\ trips_runs = <<>>

InitAdsIdle ==
    /\ InitGeocodeIdle
    /\ InitDownloadIdle
    /\ InitTextIdle
    /\ InitPointsIdle
    /\ InitTripsFileIdle

\* run_reach on varying trip legs with fixed census data, and on varying
\* census data and overlays with fixed trip legs.
Init ==
    /\ InitStages
    /\ InitKringIdle
    /\ InitAdsIdle
    /\ \/ /\ df_etapas \in TripInputs
          /\ h3_land = LandFixed
          /\ census_age = CensusFixed
       \/ /\ df_etapas = CsvFixed
          /\ h3_land \in LandInputs
          /\ census_age \in CensusInputs

Next ==
    \/ LoadTrips
    \/ AggregateTrips
    \/ AddProportions
    \/ LoadCensus
    \/ Distribute
    \/ Integrate
    \/ SaveReach

Spec == Init /\ [][Next]_vars

\* The circulation aggregator alone, on richer trip legs.
InitTrips ==
    /\ InitStages
    /\ InitKringIdle
    /\ InitAdsIdle
    /\ df_etapas \in {Csv(rows) : rows \in SeqsOfLen(LegsDedup, 1, MaxLegs)
                                          \cup SeqsOfLen(LegsEdad, 1, MaxLegs)}
    /\ h3_land = LandFixed
    /\ census_age = CensusFixed

NextTrips == LoadTrips \/ AggregateTrips

SpecTrips == InitTrips /\ [][NextTrips]_vars

\* The circulation aggregator on legs whose ends are in or out of the city,
\* with or without coordinates.
InitSides ==
    /\ InitStages
    /\ InitKringIdle
    /\ InitAdsIdle
    /\ df_etapas \in SidesInputs
    /\ h3_land = LandFixed
    /\ census_age = CensusFixed

SpecSides == InitSides /\ [][NextTrips]_vars

\* The circulation aggregator on trip-leg files that may lack columns.
InitColumns ==
    /\ InitStages
    /\ InitKringIdle
    /\ InitAdsIdle
    /\ df_etapas \in ColumnsInputs
    /\ h3_land = LandFixed
    /\ census_age = CensusFixed

SpecColumns == InitColumns /\ [][NextTrips]_vars

\* The output file of an earlier run: a table no run of the model produces.
NoFile == [exists |-> FALSE, table |-> EmptyTable]

OldFile ==
    [exists |-> TRUE,
     table |-> [columns |-> {"h3_index", "tramo_edad", "total_reach"},
                rows |-> {[h3_index |-> <<9, 9>>, tramo_edad |-> "25 A 29",
                           total_reach |-> 1]}]]

\* run_reach with or without the output file of an earlier run on disk.
InitRerun ==
    /\ pc = "load_trips"
    /\ error = ""
    /\ df_trips_agg = EmptyTable
    /\ radios_censales = Radios
    /\ h3_land_weighted = {}
    /\ census_data = {}
    /\ h3_population = {}
    /\ df_final_reach = EmptyTable
    /\ population_reach_h3 \in {NoFile, OldFile}
    /\ InitKringIdle
    /\ InitAdsIdle
    /\ h3_land = LandFixed
    /\ \/ /\ df_etapas \in TripInputs
          /\ census_age = CensusFixed
       \/ /\ df_etapas = CsvFixed
          /\ census_age \in CensusInputs

SpecRerun == InitRerun /\ [][Next]_vars

\* The neighbourhood expander alone.
InitKring ==
    /\ InitStages
    /\ df_etapas = Csv(<<>>)
    /\ h3_land = LandFixed
    /\ census_age = CensusFixed
    /\ df_pop_wide \in WideInputs
    /\ kring_k \in 0..MaxK
    /\ df_reach_kring = NotRun
    /\ InitAdsIdle

NextKring == KringReach

SpecKring == InitKring /\ [][NextKring]_vars

\* The population engine at rest, for the specifications of the ads
\* pipeline.
InitReachIdle ==
    /\ InitStages
    /\ InitKringIdle
    /\ df_etapas = CsvFixed
    /\ h3_land = LandFixed
    /\ census_age = CensusFixed

\* The geocoding service, on a new cache or on the cache of an earlier run.
InitGeocode ==
    /\ InitReachIdle
    /\ geocache \in {<<>>, StoredCache}
    /\ geo_log = <<>>
    /\ InitDownloadIdle
    /\ InitTextIdle
    /\ InitPointsIdle
    /\ InitTripsFileIdle

NextGeocode == GeocodeCall \/ BulkGeocodeCall

SpecGeocode == InitGeocode /\ [][NextGeocode]_vars

\* download_file, with or without a file at the destination.
InitDownload ==
    /\ InitReachIdle
    /\ InitGeocodeIdle
    /\ dest_file \in {Absent, Downloaded}
    /\ download_log = <<>>
    /\ InitTextIdle
    /\ InitPointsIdle
    /\ InitTripsFileIdle

NextDownload == DownloadFileCall

SpecDownload == InitDownload /\ [][NextDownload]_vars

\* Successive runs of load_trips_data, from no local file or from the file
\* an earlier run downloaded.
InitTripsFile ==
    /\ InitReachIdle
    /\ InitGeocodeIdle
    /\ InitDownloadIdle
    /\ InitTextIdle
    /\ InitPointsIdle
    /\ trips_file \in {Absent, Downloaded}
    /\ trips_runs = <<>>

NextTripsFile == LoadTripsFileCall

SpecTripsFile == InitTripsFile /\ [][NextTripsFile]_vars

\* clean_column_name on a name and then on its own output.
InitColumnName ==
    /\ InitReachIdle
    /\ InitGeocodeIdle
    /\ InitDownloadIdle
    /\ \E name \in NameInputs : column_names = <<name>>
    /\ addresses = <<>>
    /\ addresses_norm = NotRun
    /\ InitPointsIdle
    /\ InitTripsFileIdle

NextColumnName == CleanColumnNameCall

SpecColumnName == InitColumnName /\ [][NextColumnName]_vars

\* normalize_address_text on a column of one or two addresses.
InitAddress ==
    /\ InitReachIdle
    /\ InitGeocodeIdle
    /\ InitDownloadIdle
    /\ column_names = <<>>
    /\ addresses \in SeqsOfLen(AddressInputs, 1, 2)
    /\ addresses_norm = NotRun
    /\ InitPointsIdle
    /\ InitTripsFileIdle

NextAddress == NormalizeAddressTextCall

SpecAddress == InitAddress /\ [][NextAddress]_vars

\* add_h3_index on a table of points.
InitPoints ==
    /\ InitReachIdle
    /\ InitGeocodeIdle
    /\ InitDownloadIdle
    /\ InitTextIdle
    /\ points \in PointsInputs
    /\ h3_call = NotRun
    /\ InitTripsFileIdle

NextPoints == AddH3IndexCall

SpecPoints == InitPoints /\ [][NextPoints]_vars

(***************************************************************************)
(* Vocabulary of the properties of the circulation aggregator.             *)
(***************************************************************************)
Aggregated == pc \notin {"load_trips", "aggregate"}

Legs == df_etapas.rows

\* An observation is one side of one leg: <<leg, "o">> or <<leg, "d">>.
ObsAll == {<<i, sd>> : i \in 1..Len(Legs), sd \in {"o", "d"}}

ObsCell(ob) ==
    IF ob[2] = "o" THEN Legs[ob[1]]["origen_h3r9"] ELSE Legs[ob[1]]["destino_h3r9"]

ObsDepartamento(ob) ==
    IF ob[2] = "o" THEN Legs[ob[1]]["departamento_origen_viaje"]
    ELSE Legs[ob[1]]["departamento_destino_viaje"]

ObsFactor(ob) == Legs[ob[1]]["factor_expansion_viaje"]

ObsGenero(ob) == Legs[ob[1]]["genero"]

ObsTramo(ob) == Legs[ob[1]]["tramo_edad"]

\* The in-city observations that place rider id in cell c.
ObsOf(c, id) ==
    {ob \in ObsAll :
        /\ ~IsNa(Legs[ob[1]]["id_tarjeta"])
        /\ ~IsNaNFloat(ObsFactor(ob))
        /\ ObsDepartamento(ob).kind = "num"
        /\ ObsDepartamento(ob).val \in 2000..5999
        /\ ObsCell(ob) = c
        /\ Legs[ob[1]]["id_tarjeta"] = id}

CellsSeen == {ObsCell(ob) : ob \in ObsAll} \ {NoCell}

RidersSeen == {Legs[i]["id_tarjeta"] : i \in 1..Len(Legs)}

RidersIn(c) == {id \in RidersSeen : ObsOf(c, id) # {}}

RowsOfCell(c) == {row \in df_trips_agg.rows : row["h3_index"] = c}

\* The emitted value of a metric column, 0 where the row or the column is absent.
Emitted(c, tramo, col) ==
    LET rows == {row \in df_trips_agg.rows :
                    row["h3_index"] = c /\ row["tramo_edad"] = tramo}
    IN  IF rows = {} \/ col \notin df_trips_agg.columns THEN 0
        ELSE (CHOOSE row \in rows : TRUE)[col]

\* C1: for every cell, the circulating totals of the cell count every rider
\* placed there once: they add up to the sum of one sampling weight per
\* distinct rider (exactly for whole weights, and up to the integer cast of
\* each emitted row otherwise), however many observations place the rider
\* in the cell.
C1_RiderCountsOncePerCell ==
    Aggregated =>
        \A c \in CellsSeen :
            LET riders == RidersIn(c)
                rows == RowsOfCell(c)
                emitted == SumFn([row \in rows |-> row["total_circulante"]])
            IN  \E pick \in [riders -> ObsAll] :
                    /\ \A id \in riders : pick[id] \in ObsOf(c, id)
                    /\ LET once == RSumFn([id \in riders |-> ObsFactor(pick[id])])
                       IN  /\ RLeq(RInt(emitted), once)
                           /\ \/ riders = {} /\ rows = {}
                              \/ ~RLeq(RInt(emitted + Cardinality(rows)), once)
                           /\ (\A id \in riders : IsWhole(ObsFactor(pick[id])))
                                => REq(RInt(emitted), once)

\* Two legs of weight 1.0 place the same rider in the same cell, and the
\* cell's circulating total is 1.
C1_Witness ==
    /\ Aggregated
    /\ \E c \in CellsSeen, id \in RidersSeen :
        /\ RidersIn(c) = {id}
        /\ \E a \in ObsOf(c, id), b \in ObsOf(c, id) : a[1] # b[1]
        /\ \A ob \in ObsOf(c, id) : ObsFactor(ob) = R(1, 1)
        /\ SumFn([row \in RowsOfCell(c) |-> row["total_circulante"]]) = 1

\* The canonical 5-year brackets, in order of their lower bound 0, 5, ..., 95.
CanonicalTramos ==
    <<"00 A 04", "05 A 09", "10 A 14", "15 A 19", "20 A 24", "25 A 29",
      "30 A 34", "35 A 39", "40 A 44", "45 A 49", "50 A 54", "55 A 59",
      "60 A 64", "65 A 69", "70 A 74", "75 A 79", "80 A 84", "85 A 89",
      "90 A 94", "95 A 99">>

\* The bracket that contains a numeric age, the open top bracket from 100 on,
\* and the unknown bracket for a missing or non-numeric age.
BracketContaining(edad) ==
    IF edad.kind # "num" THEN "Desconocido"
    ELSE IF edad.val >= 100 THEN "100 Y MÁS"
    ELSE CanonicalTramos[(edad.val \div 5) + 1]

\* C2: every age from 0 to 99 is mapped to the canonical 5-year bracket that
\* contains it, every age from 100 on to the open top bracket and a missing
\* or non-numeric age to the unknown bracket; no emitted circulating row
\* carries a label outside the canonical set plus unknown.
C2_AgeMapsToContainingBracket ==
    Aggregated =>
        /\ \A i \in 1..Len(Legs) :
                Legs[i]["tramo_edad"] = BracketContaining(Legs[i]["grupo_edad"])
        /\ \A row \in df_trips_agg.rows :
                row["tramo_edad"] \in
                    {CanonicalTramos[j] : j \in 1..Len(CanonicalTramos)}
                    \cup {"100 Y MÁS", "Desconocido"}

\* C3: in every emitted row the total equals the sum of the male, female and
\* other columns of that row, and a cell and bracket whose riders all have a
\* gender other than 'M' and 'F' shows them in the other column and the
\* total only.
C3_TotalIsSumOfGenderColumns ==
    Aggregated =>
        \A row \in df_trips_agg.rows :
            LET c == row["h3_index"]
                t == row["tramo_edad"]
            IN  /\ row["total_circulante"] =
                        Emitted(c, t, "hombres_circulante")
                        + Emitted(c, t, "mujeres_circulante")
                        + Emitted(c, t, "otros_circulante")
                /\ (\A id \in RidersIn(c) : \A ob \in ObsOf(c, id) :
                        ObsTramo(ob) = t =>
                            ~(ObsGenero(ob).kind = "str"
                              /\ ObsGenero(ob).val \in {"M", "F"}))
                    => /\ Emitted(c, t, "hombres_circulante") = 0
                       /\ Emitted(c, t, "mujeres_circulante") = 0
                       /\ Emitted(c, t, "otros_circulante") = row["total_circulante"]

(***************************************************************************)
(* Which occurrence of a rider in a cell is kept.                          *)
(***************************************************************************)
\* Position of an observation in trip-leg order: by leg, origin side first.
LegOrder(ob) == 2 * ob[1] - (IF ob[2] = "o" THEN 1 ELSE 0)

\* Position of an observation in the unpivoted table: the origin side of
\* every leg, in leg order, then the destination side of every leg.
UnpivotOrder(ob) == ob[1] + (IF ob[2] = "o" THEN 0 ELSE Len(Legs))

First(obs, order(_)) == CHOOSE ob \in obs : \A other \in obs : order(ob) <= order(other)

\* The circulating count of (cell, bracket, gender column) when each rider
\* of the cell counts under the attributes of the observation kept(c, id).
CountUnder(c, tramo, col, kept(_, _)) ==
    LET mine == {id \in RidersIn(c) :
                    /\ ObsTramo(kept(c, id)) = tramo
                    /\ GeneroNorm(ObsGenero(kept(c, id))) = col}
    IN  AsTypeInt(RSumFn([id \in mine |-> ObsFactor(kept(c, id))]))

TramosSeen == {Legs[i]["tramo_edad"] : i \in 1..Len(Legs)}

GenderColumns == {"hombres_circulante", "mujeres_circulante", "otros_circulante"}

FirstInLegOrder(c, id) == First(ObsOf(c, id), LegOrder)

FirstInUnpivotOrder(c, id) == First(ObsOf(c, id), UnpivotOrder)

\* C6 as stated: the observation kept for a rider in a cell is the one of
\* the earliest leg that places the rider there, and the rider's weight is
\* counted under that observation's bracket and gender only.
C6_FirstLegWins ==
    Aggregated =>
        \A c \in CellsSeen, t \in TramosSeen, col \in GenderColumns :
            Emitted(c, t, col) = CountUnder(c, t, col, FirstInLegOrder)

\* C6 amended: the observation kept is the first in the unpivoted table,
\* where every origin-side observation precedes every destination-side one.
C6_FirstUnpivotedWins ==
    Aggregated =>
        /\ \A c \in CellsSeen, t \in TramosSeen, col \in GenderColumns :
                Emitted(c, t, col) = CountUnder(c, t, col, FirstInUnpivotOrder)
        /\ \A row \in df_trips_agg.rows :
                \E id \in RidersIn(row["h3_index"]) :
                    ObsTramo(FirstInUnpivotOrder(row["h3_index"], id)) = row["tramo_edad"]

\* A rider is placed in a cell by two legs that disagree on the gender, and
\* the weight is counted under the gender of the kept observation only.
C6_Witness ==
    /\ Aggregated
    /\ \E c \in CellsSeen, id \in RidersSeen :
        \E a \in ObsOf(c, id), b \in ObsOf(c, id) :
            /\ a = FirstInUnpivotOrder(c, id)
            /\ a[2] = "o" /\ b[2] = "d" /\ b[1] < a[1]
            /\ GeneroNorm(ObsGenero(a)) # GeneroNorm(ObsGenero(b))
            /\ RidersIn(c) = {id}
            /\ ObsFactor(a) = R(1, 1)
            /\ Emitted(c, ObsTramo(a), GeneroNorm(ObsGenero(a))) = 1
            /\ Emitted(c, ObsTramo(b), GeneroNorm(ObsGenero(b))) = 0

(***************************************************************************)
(* Properties of the residential and reach tables.                         *)
(***************************************************************************)
\* C4: every projected census row has hombres + mujeres = total_conteo, and
\* every (cell, bracket) row of the residential table has
\* hombres_h3 + mujeres_h3 = total_h3.
C4_ResidentialSumIdentity ==
    /\ \A r \in census_data : r.hombres + r.mujeres = r.total_conteo
    /\ \A r \in h3_population : r.hombres_h3 + r.mujeres_h3 = r.total_h3

\* A residential row built from fractional shares of men and women.
C4_Witness ==
    /\ pc = "integrate"
    /\ \E c \in census_data : c.hombres > 0 /\ c.mujeres > 0
    /\ \E r \in h3_population :
        /\ ~IsWhole(r.hombres_h3_part)
        /\ r.total_h3 > 0
        /\ r.mujeres_h3 # SeriesRound(r.mujeres_h3_part)

\* The circulating part of a reach row adds up: its total is the sum of
\* its male, female and other columns.
CirculatingAddsUp(r) ==
    r["total_circulante"] =
        r["hombres_circulante"] + r["mujeres_circulante"]
        + (IF "otros_circulante" \in DOMAIN r THEN r["otros_circulante"] ELSE 0)

IntegrateReturned == pc \in {"save", "done"}

IntegrateCalled == IntegrateReturned \/ (pc = "failed" /\ error = "KeyError")

KeysOf(rows) == {<<r["h3_index"], r["tramo_edad"]>> : r \in rows}

RowsAt(rows, k) == {r \in rows : <<r["h3_index"], r["tramo_edad"]>> = k}

\* C9: for any residential and circulating table, integrate_population_data
\* returns exactly one row per (cell, bracket) key of either input, with 0
\* in every metric of a source that lacks the key, and with each reach
\* column the sum of its residential and circulating columns.
C9_OuterMergeOfBothSources ==
    IntegrateCalled =>
        /\ IntegrateReturned
        /\ KeysOf(df_final_reach.rows) = KeysOf(h3_population) \cup KeysOf(df_trips_agg.rows)
        /\ \A k \in KeysOf(df_final_reach.rows) :
            /\ Cardinality(RowsAt(df_final_reach.rows, k)) = 1
            /\ \A r \in RowsAt(df_final_reach.rows, k) :
                /\ k \notin KeysOf(h3_population) =>
                    \A c \in {"hombres_residentes", "mujeres_residentes",
                              "total_residentes"} : r[c] = 0
                /\ k \notin KeysOf(df_trips_agg.rows) =>
                    \A c \in (df_final_reach.columns \cap
                              (GenderColumns \cup {"total_circulante"})) : r[c] = 0
                /\ r["total_reach"] = r["total_residentes"] + r["total_circulante"]
                /\ r["hombres_total_reach"] =
                        r["hombres_residentes"] + r["hombres_circulante"]
                /\ r["mujeres_total_reach"] =
                        r["mujeres_residentes"] + r["mujeres_circulante"]

\* C10: every numeric value of every reach row is a non-negative integer,
\* and so is every count of the residential table, the recomputed female
\* count included.
C10_NonNegativeIntegers ==
    /\ \A r \in df_final_reach.rows :
        \A c \in df_final_reach.columns \ {"h3_index", "tramo_edad"} : r[c] \in Nat
    /\ \A r \in h3_population :
        r.hombres_h3 \in Nat /\ r.mujeres_h3 \in Nat /\ r.total_h3 \in Nat

\* The run ended with a row whose residential female count is the positive
\* remainder of a rounded total, next to circulating riders.
C10_Witness ==
    /\ pc = "done"
    /\ \E r \in df_final_reach.rows :
        /\ r["mujeres_residentes"] > 0
        /\ r["total_circulante"] > 0
    /\ \E r \in h3_population :
        ~IsWhole(r.total_conteo_h3_part) /\ ~IsWhole(r.hombres_h3_part)

(***************************************************************************)
(* Properties of the neighbourhood expander.                               *)
(***************************************************************************)
Abs(x) == IF x < 0 THEN -x ELSE x

\* Grid steps between two cells, in closed form.
HexDistance(a, b) ==
    (Abs(a[1] - b[1]) + Abs(a[2] - b[2])
     + Abs((a[1] - b[1]) + (a[2] - b[2]))) \div 2

Metrics == df_pop_wide.columns \ {"h3_index"}

Expanded == df_reach_kring.done

\* The output rows of a cell.
ExpandedAt(c) == {o \in df_reach_kring.rows : o["h3_index"] = c}

\* The input rows within k grid steps of a cell.
Within(c, k) == {r \in df_pop_wide.rows : HexDistance(r["h3_index"], c) <= k}

\* C7: after the expansion every input cell has exactly one output row, the
\* output has no other rows, and each metric of it is the sum of that metric
\* over the input cells within k grid steps of the cell, itself included.
C7_KringSumsCellsWithinK ==
    Expanded =>
        /\ \A o \in df_reach_kring.rows :
               \E r \in df_pop_wide.rows : r["h3_index"] = o["h3_index"]
        /\ \A r \in df_pop_wide.rows :
               /\ Cardinality(ExpandedAt(r["h3_index"])) = 1
               /\ \A o \in ExpandedAt(r["h3_index"]) : \A m \in Metrics :
                      o[m] = SumFn([n \in Within(r["h3_index"], kring_k) |-> n[m]])

\* The scenario of C7: a cell of 10 with a neighbour of 5 and a cell of 1000
\* three steps away expands to 15 at k = 1, and its other metric to the sum
\* of the other metric of the two.
C7_Witness ==
    /\ Expanded
    /\ kring_k = 1
    /\ \E c \in df_pop_wide.rows, n \in df_pop_wide.rows, u \in df_pop_wide.rows :
           /\ c["total_reach"] = 10
           /\ n["total_reach"] = 5
           /\ u["total_reach"] = 1000
           /\ HexDistance(c["h3_index"], n["h3_index"]) = 1
           /\ HexDistance(c["h3_index"], u["h3_index"]) > 1
           /\ Cardinality(Within(c["h3_index"], 1)) = 2
           /\ c["total_residentes"] # n["total_residentes"]
           /\ \E o \in ExpandedAt(c["h3_index"]) :
                  /\ o["total_reach"] = 15
                  /\ o["total_residentes"] =
                         c["total_residentes"] + n["total_residentes"]

\* C8: with k = 1 and a metric whose input values are all non-negative, the
\* expanded value of every input cell is at least the cell's own value.
C8_ExpandedAtLeastOwn ==
    (Expanded /\ kring_k = 1) =>
        \A m \in Metrics :
            (\A r \in df_pop_wide.rows : r[m] >= 0) =>
                \A r \in df_pop_wide.rows :
                    /\ ExpandedAt(r["h3_index"]) # {}
                    /\ \A o \in ExpandedAt(r["h3_index"]) : o[m] >= r[m]

\* At k = 1 one cell gains from a neighbour and another, with no neighbour
\* in the table, keeps exactly its own value.
C8_Witness ==
    /\ Expanded
    /\ kring_k = 1
    /\ \E r \in df_pop_wide.rows : \E o \in ExpandedAt(r["h3_index"]) :
           o["total_reach"] > r["total_reach"]
    /\ \E r \in df_pop_wide.rows : \E o \in ExpandedAt(r["h3_index"]) :
           /\ r["total_reach"] > 0
           /\ o["total_reach"] = r["total_reach"]

(***************************************************************************)
(* Properties of the residential allocation.                               *)
(***************************************************************************)
\* distribute_population_to_h3 has returned a table.
Distributed == pc \in {"integrate", "save", "done"} \/ (pc = "failed" /\ error = "KeyError")

PiecesOf(u) == {p \in h3_land_weighted : p.cod_indec = u}

CellsOf(u) == {p.h3_index : p \in PiecesOf(u)}

\* The allocation weight of unit u in a cell.
WeightIn(u, cell) ==
    RSumFn([p \in {q \in PiecesOf(u) : q.h3_index = cell} |-> p.prop_to_radio])

\* The unit is fully covered by the grid: its weights sum to 1.
FullyCovered(u) ==
    /\ PiecesOf(u) # {}
    /\ REq(RSumFn([p \in PiecesOf(u) |-> p.prop_to_radio]), RInt(1))

\* No other unit allocates population of the bracket to a cell of unit u.
SoleSource(u, tramo) ==
    \A p \in h3_land_weighted, c \in census_data :
        (/\ p.h3_index \in CellsOf(u)
         /\ p.cod_indec # u
         /\ c.cod_indec = p.cod_indec
         /\ c.tramo_edad = tramo)
            => REq(RMul(RInt(c.total_conteo), p.prop_to_radio), RInt(0))

\* The residential total of a cell and bracket, 0 where the table has no row.
TotalH3(cell, tramo) ==
    LET rows == {r \in h3_population : r.h3_index = cell /\ r.tramo_edad = tramo}
    IN  IF rows = {} THEN 0 ELSE (CHOOSE r \in rows : TRUE).total_h3

\* Whole number k is a nearest whole number of fraction a.
IsNearest(k, a) ==
    LET diff == k * a.d - a.n
    IN  2 * (IF diff < 0 THEN -diff ELSE diff) <= a.d

\* The census rows of the units whose allocation can be read off the
\* residential table: fully covered, and alone in their cells.
AllocatedAlone ==
    {c \in census_data : FullyCovered(c.cod_indec) /\ SoleSource(c.cod_indec, c.tramo_edad)}

AllocatedSum(c) ==
    SumFn([cell \in CellsOf(c.cod_indec) |-> TotalH3(cell, c.tramo_edad)])

\* C11 as stated: for every fully covered unit and bracket, the rounded
\* per-cell totals allocated from the unit sum to the unit's population,
\* however the unit is split across cells.
C11_RoundedTotalsConserveUnit ==
    Distributed =>
        \A c \in AllocatedAlone : AllocatedSum(c) = c.total_conteo

\* C11 amended: each per-cell total is the unit's fractional allocation to
\* the cell rounded to a nearest whole number; the totals sum to the unit's
\* population when every fractional allocation is whole, and otherwise
\* differ from it by at most half the number of cells.
C11_RoundedTotalsWithinHalfPerCell ==
    Distributed =>
        \A c \in AllocatedAlone :
            LET share(cell) == RMul(RInt(c.total_conteo), WeightIn(c.cod_indec, cell))
                diff == AllocatedSum(c) - c.total_conteo
            IN  /\ \A cell \in CellsOf(c.cod_indec) :
                       IsNearest(TotalH3(cell, c.tramo_edad), share(cell))
                /\ 2 * (IF diff < 0 THEN -diff ELSE diff)
                       <= Cardinality(CellsOf(c.cod_indec))
                /\ (\A cell \in CellsOf(c.cod_indec) : IsWhole(share(cell)))
                       => diff = 0

\* A unit of population 100 split 70/30 across two cells yields 70 and 30.
C11_Witness ==
    /\ Distributed
    /\ \E c \in AllocatedAlone :
           /\ c.total_conteo = 100
           /\ \E x \in CellsOf(c.cod_indec), y \in CellsOf(c.cod_indec) :
                  /\ REq(WeightIn(c.cod_indec, x), R(7, 10))
                  /\ REq(WeightIn(c.cod_indec, y), R(3, 10))
                  /\ TotalH3(x, c.tramo_edad) = 70
                  /\ TotalH3(y, c.tramo_edad) = 30

\* The (piece, census row) pairs that contribute to a cell and bracket.
Contributions(cell, tramo) ==
    {pc2 \in h3_land_weighted \X census_data :
        /\ pc2[1].cod_indec = pc2[2].cod_indec
        /\ pc2[1].h3_index = cell
        /\ pc2[2].tramo_edad = tramo}

\* The sum over the contributions of value(census row) * weight(piece).
SumOfShares(cell, tramo, value(_)) ==
    RSumFn([pc2 \in Contributions(cell, tramo) |->
                RMul(value(pc2[2]), pc2[1].prop_to_radio)])

TotalOf(c) == RInt(c.total_conteo)

\* The male count of a census row before any rounding.
UnroundedMale(c) == R(100 * c.total_conteo, 100 + c.tasa_feminidad)

\* The male count of a census row as the projector emits it.
ProjectedMale(c) == RInt(c.hombres)

\* C12 as stated: the male and total counts of each (cell, bracket) are the
\* sum of the un-rounded contributions of the census units, rounded once;
\* nothing that enters the sum was rounded per unit.
C12_NothingRoundedBeforeSum ==
    \A r \in h3_population :
        /\ r.total_h3 = SeriesRound(SumOfShares(r.h3_index, r.tramo_edad, TotalOf))
        /\ r.hombres_h3 = SeriesRound(SumOfShares(r.h3_index, r.tramo_edad, UnroundedMale))

\* C12 amended: the shares are summed un-rounded and the sum is rounded once
\* per (cell, bracket); the total's shares are shares of the census count,
\* the male count's shares are shares of each unit's male count, which the
\* projector has already rounded to a whole number per (unit, bracket).
C12_SharesSummedThenRoundedOnce ==
    \A r \in h3_population :
        /\ r.total_h3 = SeriesRound(SumOfShares(r.h3_index, r.tramo_edad, TotalOf))
        /\ r.hombres_h3 = SeriesRound(SumOfShares(r.h3_index, r.tramo_edad, ProjectedMale))
        /\ REq(r.total_conteo_h3_part, SumOfShares(r.h3_index, r.tramo_edad, TotalOf))
        /\ REq(r.hombres_h3_part, SumOfShares(r.h3_index, r.tramo_edad, ProjectedMale))

\* Two units each allocate half a person to a cell: the cell's total is 1,
\* where the two halves rounded one by one would give 0.
C12_Witness ==
    /\ Distributed
    /\ \E r \in h3_population :
           /\ Cardinality(Contributions(r.h3_index, r.tramo_edad)) = 2
           /\ \A pc2 \in Contributions(r.h3_index, r.tramo_edad) :
                  REq(RMul(TotalOf(pc2[2]), pc2[1].prop_to_radio), R(1, 2))
           /\ r.total_h3 = 1

(***************************************************************************)
(* Properties of the Gender/Age projector.                                 *)
(***************************************************************************)
\* load_ct_population_data has returned a table.
Projected == pc \notin {"load_trips", "aggregate", "weights", "census"}
             /\ ~(pc = "failed" /\ error = "IntCastingNaNError" /\ census_data = {})

\* C13: every projected row has male = round(T / (1 + r/100)), with r the
\* ratio of the row's bracket, and female = T - male, so that
\* 0 <= male <= T.
C13_MaleRoundedFemaleRemainder ==
    \A c \in census_data :
        LET exact == R(100 * c.total_conteo, 100 + TasasFeminidad[c.tramo_edad])
        IN  /\ c.tasa_feminidad = TasasFeminidad[c.tramo_edad]
            /\ IsNearest(c.hombres, exact)
            /\ (2 * (c.hombres * exact.d - exact.n) \in {exact.d, -exact.d})
                   => c.hombres % 2 = 0
            /\ c.mujeres = c.total_conteo - c.hombres
            /\ 0 <= c.hombres /\ c.hombres <= c.total_conteo

\* Ratio 110 and total 21 give male 10 and female 11.
C13_Witness ==
    /\ Projected
    /\ \E c \in census_data :
           /\ c.tasa_feminidad = 110
           /\ c.total_conteo = 21
           /\ c.hombres = 10
           /\ c.mujeres = 11

\* The census data has a row whose bracket is not a key of the ratio table.
HasUnknownBracket ==
    \E c \in census_age : ReplaceTramo(c.tramo_edad) \notin DOMAIN TasasFeminidad

CensusLoaded == pc \notin {"load_trips", "aggregate", "weights", "census"}

\* C14: when the census data has a row of a bracket the ratio table lacks,
\* the projector fails with an error and emits no row at all, and nothing
\* downstream of it is computed or written.
C14_UnknownBracketRejected ==
    (HasUnknownBracket /\ CensusLoaded) =>
        /\ pc = "failed"
        /\ error # ""
        /\ census_data = {}
        /\ h3_population = {}
        /\ df_final_reach.rows = {}
        /\ ~population_reach_h3.exists

\* The projector failed on census data that has rows of known brackets
\* with people in them next to the row of the unknown bracket.
C14_Witness ==
    /\ pc = "failed"
    /\ error = "IntCastingNaNError"
    /\ HasUnknownBracket
    /\ \E c \in census_age :
           c.tramo_edad \in DOMAIN TasasFeminidad /\ c.total_conteo > 0

(***************************************************************************)
(* Properties of the allocation weights.                                   *)
(***************************************************************************)
\* add_intersection_area_proportions has returned.
Weighted == pc \notin {"load_trips", "aggregate", "weights"}

\* The intersection pieces of a unit in the overlay.
OverlayPieces(u) == {p \in h3_land : p.cod_indec = u.cod_indec}

\* The unit's polygon is entirely covered by grid cells: its intersection
\* pieces partition its area.
EntirelyCovered(u) ==
    /\ OverlayPieces(u) # {}
    /\ SumFn([p \in OverlayPieces(u) |-> p.area]) = u.area

WeightsOf(u) == {p \in h3_land_weighted : p.cod_indec = u.cod_indec}

\* C15: the weights of the pieces of every entirely covered unit (of
\* positive area; a unit of area 0 has no area to share out and is the
\* case of C16) sum to 1, and every weight lies in [0, 1].
C15_WeightsOfCoveredUnitSumToOne ==
    Weighted =>
        /\ \A u \in radios_censales :
               (u.area > 0 /\ EntirelyCovered(u)) =>
                   REq(RSumFn([p \in WeightsOf(u) |-> p.prop_to_radio]), RInt(1))
        /\ \A p \in h3_land_weighted :
               /\ IsFinite(p.prop_to_radio)
               /\ RLeq(RInt(0), p.prop_to_radio)
               /\ RLeq(p.prop_to_radio, RInt(1))

\* One unit is split 70/30 across two cells with weights 7/10 and 3/10,
\* and another lies partly outside the grid.
C15_Witness ==
    /\ Weighted
    /\ \E u \in radios_censales :
           /\ EntirelyCovered(u)
           /\ \E p \in WeightsOf(u), q \in WeightsOf(u) :
                  /\ REq(p.prop_to_radio, R(7, 10))
                  /\ REq(q.prop_to_radio, R(3, 10))
    /\ \E u \in radios_censales :
           /\ OverlayPieces(u) # {}
           /\ ~EntirelyCovered(u)

\* C16: every piece of a unit of area 0 gets weight 0, a finite number and
\* not NaN, the call does not fail, and the weight of every piece of a unit
\* of positive area is the piece's share of its unit's area all the same.
C16_ZeroAreaUnitWeighsZero ==
    Weighted =>
        /\ pc = "census" => error = ""
        /\ Cardinality(h3_land_weighted) = Cardinality(h3_land)
        /\ \A u \in radios_censales : \A p \in WeightsOf(u) :
               /\ IsFinite(p.prop_to_radio)
               /\ u.area = 0 => REq(p.prop_to_radio, RInt(0))
               /\ u.area > 0 => REq(p.prop_to_radio, R(p.intersect_area_m2, u.area))

\* The overlay has a piece of a unit of area 0 next to pieces of units
\* with positive weights.
C16_Witness ==
    /\ Weighted
    /\ \E u \in radios_censales :
           /\ u.area = 0
           /\ WeightsOf(u) # {}
           /\ \A p \in WeightsOf(u) : p.prop_to_radio = RInt(0)
    /\ \E p \in h3_land_weighted : RLeq(R(1, 2), p.prop_to_radio)

(***************************************************************************)
(* Which observations reach the circulating counts.                        *)
(***************************************************************************)
\* The side's jurisdiction code lies in the in-city range.
InCity(ob) ==
    /\ ObsDepartamento(ob).kind = "num"
    /\ 2000 <= ObsDepartamento(ob).val
    /\ ObsDepartamento(ob).val <= 5999

\* The side's coordinates are mapped to a cell.
Mappable(ob) == ObsCell(ob) # NoCell

\* The (rider, cell) pairs of the observations that count.
Counted ==
    {<<Legs[ob[1]]["id_tarjeta"], ObsCell(ob)>> :
        ob \in {o \in ObsAll : InCity(o) /\ Mappable(o)}}

EmittedCells == {row["h3_index"] : row \in df_trips_agg.rows}

AllWeightsOne == \A i \in 1..Len(Legs) : Legs[i]["factor_expansion_viaje"] = R(1, 1)

\* C17: a cell has circulating rows if and only if some observation with a
\* jurisdiction code in 2000..5999 lies in it; with weights 1 the cell's
\* total is the number of riders with such an observation there, so a side
\* outside the range adds nothing, whatever the other side of its leg.
C17_InCitySidesOnly ==
    Aggregated =>
        /\ \A c \in CellsSeen :
               (c \in EmittedCells) <=> (\E ob \in ObsAll : InCity(ob) /\ ObsCell(ob) = c)
        /\ AllWeightsOne =>
               \A c \in CellsSeen :
                   SumFn([row \in RowsOfCell(c) |-> row["total_circulante"]])
                       = Cardinality({k \in Counted : k[2] = c})

\* A leg from the city (code 5999) to a cell outside it (code 6000) counts
\* at its origin only, and a leg between two cells outside the city (codes
\* 1999 and 6000) counts nowhere.
C17_Witness ==
    /\ Aggregated
    /\ \E i \in 1..Len(Legs) :
           /\ Legs[i]["departamento_origen_viaje"] = Num(5999)
           /\ Legs[i]["departamento_destino_viaje"] = Num(6000)
           /\ Mappable(<<i, "o">>) /\ Mappable(<<i, "d">>)
           /\ ObsCell(<<i, "o">>) \in EmittedCells
           /\ ObsCell(<<i, "d">>) \notin EmittedCells
    /\ \E i \in 1..Len(Legs) :
           /\ Legs[i]["departamento_origen_viaje"] = Num(1999)
           /\ Legs[i]["departamento_destino_viaje"] = Num(6000)
           /\ Mappable(<<i, "o">>) /\ Mappable(<<i, "d">>)
           /\ ObsCell(<<i, "o">>) \notin EmittedCells
           /\ ObsCell(<<i, "d">>) \notin EmittedCells

\* C18: a side with a missing latitude or longitude gets no cell; no row
\* has a missing or placeholder cell, the weights over all rows count the
\* mappable in-city observations only, the mappable in-city side of every
\* leg has its row, and the run does not fail.
C18_UnmappableSideSkipped ==
    Aggregated =>
        /\ pc # "failed" /\ error = ""
        /\ \A ob \in ObsAll :
               (IsNa(Legs[ob[1]][IF ob[2] = "o" THEN "latitud_origen_viaje"
                                               ELSE "latitud_destino_viaje"])
                \/ IsNa(Legs[ob[1]][IF ob[2] = "o" THEN "longitud_origen_viaje"
                                                 ELSE "longitud_destino_viaje"]))
                   => ~Mappable(ob)
        /\ EmittedCells \subseteq CellsSeen
        /\ \A ob \in ObsAll : (InCity(ob) /\ Mappable(ob)) => ObsCell(ob) \in EmittedCells
        /\ AllWeightsOne =>
               SumFn([row \in df_trips_agg.rows |-> row["total_circulante"]])
                   = Cardinality(Counted)

\* A leg whose in-city origin has no coordinates still counts at its
\* in-city destination, next to another rider's leg.
C18_Witness ==
    /\ Aggregated
    /\ error = ""
    /\ \E i \in 1..Len(Legs) :
           /\ InCity(<<i, "o">>) /\ ~Mappable(<<i, "o">>)
           /\ InCity(<<i, "d">>) /\ Mappable(<<i, "d">>)
           /\ \E row \in RowsOfCell(ObsCell(<<i, "d">>)) : row["total_circulante"] = 1
           /\ \E j \in 1..Len(Legs) :
                  /\ Legs[j]["id_tarjeta"] # Legs[i]["id_tarjeta"]
                  /\ ObsCell(<<j, "d">>) \in EmittedCells
                  /\ ObsCell(<<j, "d">>) # ObsCell(<<i, "d">>)

(***************************************************************************)
(* Missing columns, and what the components do to their arguments.         *)
(***************************************************************************)
\* C19: when the trip-leg table passed to the aggregator lacks the age
\* column or the gender column, the aggregator fails or emits no row: it
\* never emits circulating rows built from a default bracket or gender.
C19_NoDefaultForMissingColumn ==
    [][(/\ pc = "aggregate"
        /\ ("grupo_edad" \notin df_etapas.columns \/ "genero" \notin df_etapas.columns))
            => (pc' = "failed" \/ df_trips_agg'.rows = {})]_vars

\* C20: every component leaves the tables passed to it unchanged:
\* aggregate_trips_by_h3 its trip legs, add_intersection_area_proportions
\* the overlay and the units, distribute_population_to_h3 the weights and
\* the census rows, integrate_population_data the residential and the
\* circulating table, calculate_kring_reach its wide table.
C20_ArgumentsUnchanged ==
    [][/\ pc = "aggregate" => df_etapas' = df_etapas
       /\ pc = "weights" => (h3_land' = h3_land /\ radios_censales' = radios_censales)
       /\ pc = "distribute" =>
              (h3_land_weighted' = h3_land_weighted /\ census_data' = census_data)
       /\ pc = "integrate" =>
              (h3_population' = h3_population /\ df_trips_agg' = df_trips_agg)
       /\ df_reach_kring' # df_reach_kring => df_pop_wide' = df_pop_wide]_vars

(***************************************************************************)
(* The output file of run_reach.                                           *)
(***************************************************************************)
\* C21: the reach output file is written only once every stage has
\* completed: until then, and for good when a stage raises, the file is as
\* the run found it (absent, or the file of an earlier run); when the run is
\* done the file holds the integrated table and every stage has produced
\* its result.
C21_OutputWrittenLast ==
    /\ pc # "done" => population_reach_h3 \in {NoFile, OldFile}
    /\ pc = "done" =>
           /\ population_reach_h3 = [exists |-> TRUE, table |-> df_final_reach]
           /\ error = ""
           /\ df_trips_agg # EmptyTable
           /\ h3_land_weighted # {}
           /\ df_final_reach # EmptyTable

\* The last stage, the integration, raised after the residential table was
\* built, and the file of the earlier run is still on disk.
C21_Witness ==
    /\ pc = "failed"
    /\ error = "KeyError"
    /\ h3_population # {}
    /\ population_reach_h3 = OldFile

(***************************************************************************)
(* The geocoding service.                                                  *)
(***************************************************************************)
\* The key an address is filed under: trimmed and lower-cased.
NormalizedKey(address) == StrStrip(StrLower(address.val))

GeoCalls == {geo_log[i] : i \in 1..Len(geo_log)}

\* The call asked the external service.
AskedApi(c) == c.api # NotCalled

\* The cache held the address of the call when the call began.
HeldBefore(c) ==
    c.address.kind = "str" /\ NormalizedKey(c.address) \in DOMAIN c.before

C23_CacheMissSaves ==
    \A c \in GeoCalls :
        (c.address.kind = "str" /\ ~HeldBefore(c) /\ c.api.kind = "location")
        => LET key == NormalizedKey(c.address)
           IN  /\ c.result.lat = Num(c.api.latitude)
               /\ c.result.lon = Num(c.api.longitude)
               /\ key \in DOMAIN c.after
               /\ c.after[key].lat = Num(c.api.latitude)
               /\ c.after[key].long = Num(c.api.longitude)

\* " AB<tab>" was looked up on an empty cache, the service answered, and the
\* cache now holds "ab".
C23_Witness ==
    \E c \in GeoCalls :
        /\ c.address = Str(<<" ", "A", "B", "\t">>)
        /\ c.before = <<>>
        /\ c.api.kind = "location"
        /\ <<"a", "b">> \in DOMAIN c.after

\* The lookup failed: nothing to look up, nothing found, or the service
\* timed out or was unavailable.
FailedLookup(c) ==
    \/ c.address.kind = "none"
    \/ c.address.val = <<>>
    \/ c.api \in {ApiNone, GeocoderTimedOut, GeocoderUnavailable}

\* C28: a failed lookup (the service returns no location or raises a timeout
\* or unavailable error, or the address is empty or null) returns
\* (None, None, None) and leaves the cache as it was; when the service was
\* asked and failed, the next call for the same address asks it again.
C28_FailuresNotCached ==
    \A i \in 1..Len(geo_log) :
        FailedLookup(geo_log[i]) =>
            /\ geo_log[i].result = NoneTriple
            /\ geo_log[i].after = geo_log[i].before
            /\ (/\ AskedApi(geo_log[i])
                /\ i < Len(geo_log)
                /\ geo_log[i + 1].address = geo_log[i].address)
               => AskedApi(geo_log[i + 1])

\* "ab" was not found, was asked for again, and the service was asked again
\* and answered.
C28_Witness ==
    /\ Len(geo_log) >= 2
    /\ geo_log[1].address = Str(<<"a", "b">>)
    /\ geo_log[1].api = ApiNone
    /\ geo_log[2].address = Str(<<"a", "b">>)
    /\ geo_log[2].api.kind = "location"

DownloadCalls == {download_log[i] : i \in 1..Len(download_log)}

\* The bytes of all the chunks, in the order received.
RECURSIVE Concatenation(_)
Concatenation(chunks) ==
    IF chunks = <<>> THEN <<>>
    ELSE Head(chunks) \o Concatenation(Tail(chunks))

\* C24: whenever download_file raises because the request or the streaming
\* of the chunks fails, no file exists at the destination afterwards and the
\* failure is the exception the caller gets; when the download succeeds the
\* destination file holds exactly the concatenation of the received chunks
\* in order.
C24_FailureLeavesNoFile ==
    \A c \in DownloadCalls :
        /\ c.raised # "" =>
               /\ ~c.after.exists
               /\ c.raised = IF c.response.request # "ok"
                             THEN c.response.request
                             ELSE "ChunkedEncodingError"
        /\ c.downloaded =>
               /\ c.raised = ""
               /\ c.after.exists
               /\ c.after.content = Concatenation(c.response.chunks)

\* A forced download over the file of an earlier one broke after its first
\* chunk, and a download of two chunks succeeded.
C24_Witness ==
    /\ \E c \in DownloadCalls :
         /\ c.before = Downloaded
         /\ c.force
         /\ c.response.deliver = 1
         /\ c.raised = "ChunkedEncodingError"
    /\ \E c \in DownloadCalls :
         /\ c.downloaded
         /\ c.after.content = <<"x", "y", "z">>

(***************************************************************************)
(* The local copy of the trip-leg file.                                    *)
(***************************************************************************)
\* The download of run i broke after it had written part of the file, and
\* left what it had written.
BrokenDownload(i) ==
    /\ trips_runs[i].raised = "ChunkedEncodingError"
    /\ trips_runs[i].response.deliver > 0
    /\ trips_runs[i].after.exists

\* C30: load_trips_data only ever reads a completely downloaded file: when
\* the download of a run breaks part-way, no later run takes the partly
\* written local file for the cached dataset and reads it.
C30_PartialFileNeverRead ==
    \A i \in 1..Len(trips_runs) : \A j \in 1..Len(trips_runs) :
        (i < j /\ BrokenDownload(i)) =>
            ~(/\ trips_runs[j].cached
              /\ trips_runs[j].read.done
              /\ trips_runs[j].read.content = trips_runs[i].after.content)

(***************************************************************************)
(* clean_column_name.                                                      *)
(***************************************************************************)
\* A run of spaces written as one underscore.
RECURSIVE SpaceRunsToUnderscore(_, _)
SpaceRunsToUnderscore(s, i) ==
    IF i > Len(s) THEN <<>>
    ELSE IF s[i] # " " THEN <<s[i]>> \o SpaceRunsToUnderscore(s, i + 1)
    ELSE IF i > 1 /\ s[i - 1] = " " THEN SpaceRunsToUnderscore(s, i + 1)
    ELSE <<"_">> \o SpaceRunsToUnderscore(s, i + 1)

\* The name lower-cased and accent-stripped, without its leading and
\* trailing whitespace, each run of internal spaces written as one
\* underscore and the periods removed.
CleanedForm(name) ==
    LET trimmed == StrStrip(StrLower(StripAccents(name)))
        joined == SpaceRunsToUnderscore(trimmed, 1)
    IN  SelectSeq(joined, LAMBDA c : c # ".")

\* C25: clean_column_name maps a column name to its lower-cased,
\* accent-stripped form with leading and trailing whitespace removed, periods
\* removed and each run of one or more internal spaces replaced by a single
\* underscore, and applied to its own output it returns that output.
C25_CleanedName ==
    /\ Len(column_names) >= 2 => column_names[2] = CleanedForm(column_names[1])
    /\ Len(column_names) >= 3 => column_names[3] = column_names[2]

(***************************************************************************)
(* normalize_address_text.                                                 *)
(***************************************************************************)
\* Neither a leading, a trailing nor a repeated space.
SingleSpaced(s) ==
    /\ s # <<>> => s[1] # " " /\ s[Len(s)] # " "
    /\ \A i \in 1..Len(s) - 1 : ~(s[i] = " " /\ s[i + 1] = " ")

\* The street X after what the abbreviation stands for, or alone when the
\* abbreviation is one the table removes.
Expanded26(a) == IF a.full = <<>> THEN <<"X">> ELSE a.full \o <<" ", "X">>

\* C26: normalize_address_text expands or removes every listed abbreviation
\* whether or not it is written with a trailing period, and leaves no stray
\* period and no repeated, leading or trailing space: "Av. X" and "Avda X"
\* become "Avenida X", "Pje. X" and "Tte Gral X" become "X".
C26_AbbreviationsNormalized ==
    addresses_norm.done =>
        \A i \in 1..Len(addresses) :
            /\ SingleSpaced(addresses_norm.rows[i])
            /\ \A a \in Abbreviations :
                 \A period \in {<<>>, <<".">>}, gap \in {<<" ">>, <<" ", " ">>} :
                    addresses[i] = Abbreviated(a, period, gap) =>
                        addresses_norm.rows[i] = Expanded26(a)

(***************************************************************************)
(* add_h3_index.                                                           *)
(***************************************************************************)
\* The table the call was made on has both coordinate columns.
HasCoordinateColumns == {"lat", "long"} \subseteq h3_call.before.columns

\* The entries the call produced: the returned series, or the new column of
\* the returned table.
H3Entries ==
    IF h3_call.inplace
    THEN [i \in 1..Len(h3_call.returned.table.rows) |->
            h3_call.returned.table.rows[i][
                IF h3_call.out_col.kind = "none"
                THEN (IF h3_call.resolution = 9 THEN "h3_res9" ELSE "h3_res10")
                ELSE h3_call.out_col.val]]
    ELSE h3_call.returned.values

\* C27: add_h3_index returns one entry per input row, in input order: a cell
\* for every row whose latitude and longitude are both present and a missing
\* value for every other row; it raises KeyError when the latitude or the
\* longitude column does not exist; with inplace=False it returns a series
\* (named h3_res<resolution> when no name is given) and adds no column to
\* the input table, with inplace=True it returns the table with the column
\* added.
C27_OneEntryPerRow ==
    h3_call.done =>
        /\ ~HasCoordinateColumns => h3_call.raised = "KeyError"
        /\ HasCoordinateColumns =>
             /\ h3_call.raised = ""
             /\ Len(H3Entries) = Len(h3_call.before.rows)
             /\ \A i \in 1..Len(h3_call.before.rows) :
                  LET row == h3_call.before.rows[i]
                  IN  IF ~IsNa(row["lat"]) /\ ~IsNa(row["long"])
                      THEN H3Entries[i] = LatLngToCell(row["lat"].val,
                                                       row["long"].val)
                      ELSE H3Entries[i] = NoCell
             /\ ~h3_call.inplace =>
                  /\ h3_call.returned.kind = "Series"
                  /\ h3_call.out_col.kind = "none" =>
                         h3_call.returned.name =
                             (IF h3_call.resolution = 9 THEN "h3_res9"
                              ELSE "h3_res10")
                  /\ points = h3_call.before
             /\ h3_call.inplace =>
                  /\ h3_call.returned.kind = "DataFrame"
                  /\ h3_call.returned.table = points
                  /\ \A i \in 1..Len(points.rows) : \A c \in PointColumns :
                         points.rows[i][c] = h3_call.before.rows[i][c]

\* A series for two rows, the first with both coordinates and the second
\* without a longitude.
C27_Witness ==
    /\ h3_call.done
    /\ ~h3_call.inplace
    /\ h3_call.returned.name = "h3_res9"
    /\ Len(h3_call.before.rows) = 2
    /\ h3_call.returned.values[1] = <<1, 0>>
    /\ h3_call.returned.values[2] = NoCell

====
